---------------------------- MODULE Spec2Model ----------------------------
(***************************************************************************)
(* The SVG/JSX transcoder of better-svg (svgTransform.ts): the payload     *)
(* codec, the attribute dictionary, the dialect detector, the expression   *)
(* scanner, the forward and reverse transcoders and the optimization       *)
(* bridge.                                                                 *)
(*                                                                         *)
(* Text is a TLA+ string over printable ASCII; a one-character string is a *)
(* character.  A TLA+ string literal cannot hold the grave accent (code    *)
(* 96): the module writes that character as "\f".  The codec works on      *)
(* UTF-16 code units and bytes (numbers), as Buffer.from(string) and       *)
(* Buffer.toString do.                                                     *)
(***************************************************************************)
EXTENDS Integers, Sequences, FiniteSets, TLC

VARIABLES
    jsxToSvgAttributeMap,   \* module-level dictionary, JSX name -> SVG name
    svgToJsxAttributeMap,   \* module-level reverse dictionary
    doc,                    \* the text the editor holds
    typed,                  \* the number of fragments typed into doc
    pc,                     \* the caller's position
    isJsx,                  \* the result of isJsxSvg(doc)
    svg,                    \* the result of convertJsxToSvg(doc)
    jsx,                    \* the result of convertSvgToJsx(svg)
    prepared,               \* the result of prepareForOptimization(doc)
    optimized,              \* what the optimizer returned for prepared.preparedSvg
    finalized,              \* the result of finalizeAfterOptimization
    body,                   \* codec: the string handed to encodeJsx (code units)
    payload,                \* codec: the result of encodeJsx
    decoded,                \* codec: the result of decodeJsx
    cpc,                    \* codec: the caller's position
    input,                  \* scanner: the argument content of replaceJsxExpressions
    scanTyped,              \* scanner: the number of fragments typed into content
    result,                 \* scanner: the local result
    currentIndex,           \* scanner: the local currentIndex
    startIdx,               \* scanner: the local startIdx
    scan,                   \* scanner: the locals j, balance, found, inString, stringChar
    spc,                    \* scanner: the position in replaceJsxExpressions
    callLog,                \* calls: the calls made so far, with their results
    spreadCounter,          \* calls: the value the latest spreadIndex was left with
    regexLastIndex,         \* calls: the lastIndex the latest g-flag regex was left with
    documents,              \* editor: the text of each open document, by URI
    theme,                  \* editor: vscode.window.activeColorTheme.kind
    clock,                  \* editor: Date.now()
    cache,                  \* SvgHoverProvider.cache: the entries, by cache key
    hover,                  \* what the latest provideHover returned
    decorationTypes,        \* SvgGutterPreview.decorationTypes: the types, by URI
    created,                \* every decoration type created so far
    called                  \* the method of the two classes called last

dictVars == <<jsxToSvgAttributeMap, svgToJsxAttributeMap>>
bridgeVars == <<doc, typed, pc, isJsx, svg, jsx, prepared, optimized, finalized>>
codecVars == <<body, payload, decoded, cpc>>
scanVars == <<input, scanTyped, result, currentIndex, startIdx, scan, spc>>
callVars == <<callLog, spreadCounter, regexLastIndex>>
editorVars == <<documents, theme, clock, cache, hover, decorationTypes, created, called>>
vars == <<dictVars, bridgeVars, codecVars, scanVars, callVars, editorVars>>

(***************************************************************************)
(* Bounds of the model.                                                    *)
(***************************************************************************)
MaxBody == 3
MaxFrags == 3
MaxScan == 5
MaxScanLive == 4
MaxCalls == 3

(***************************************************************************)
(* Characters.                                                             *)
(***************************************************************************)
Backtick == "\f"

\* U+FA1C, a CJK ideograph that an identifier may hold, written "\r".
Ideograph == "\r"

Printable ==
    " !\"#$%&'()*+,-./0123456789:;<=>?@ABCDEFGHIJKLMNOPQRSTUVWXYZ[\\]^_\fabcdefghijklmnopqrstuvwxyz{|}~"

At(s, i) == SubSeq(s, i, i)

IndexIn(str, c) ==
    LET hits == {i \in 1..Len(str) : At(str, i) = c}
    IN  IF hits = {} THEN 0 ELSE CHOOSE i \in hits : \A k \in hits : i <= k

\* String.prototype.charCodeAt for the characters of the model's text.
CharCode(c) == IF c = Ideograph THEN 64028 ELSE 31 + IndexIn(Printable, c)

\* A character the model's text alphabet cannot write (a control character
\* or a code unit above 126).
Unprintable == "\t"

\* String.fromCharCode, on the model's text alphabet.
FromCharCode(u) ==
    IF u >= 32 /\ u <= 126 THEN At(Printable, u - 31)
    ELSE IF u = 64028 THEN Ideograph
    ELSE Unprintable

RECURSIVE Units(_)
Units(s) == IF s = "" THEN <<>> ELSE <<CharCode(Head(s))>> \o Units(Tail(s))

RECURSIVE Str(_)
Str(u) == IF u = <<>> THEN "" ELSE FromCharCode(Head(u)) \o Str(Tail(u))

(***************************************************************************)
(* Buffer.from(string): the UTF-8 bytes of a sequence of UTF-16 code       *)
(* units.  A surrogate pair is one 4-byte sequence; a surrogate that has   *)
(* no partner is written as U+FFFD (EF BF BD).                             *)
(***************************************************************************)
IsHighSurrogate(u) == u >= 55296 /\ u <= 56319
IsLowSurrogate(u) == u >= 56320 /\ u <= 57343

Utf8OfCodePoint(cp) ==
    IF cp < 128 THEN <<cp>>
    ELSE IF cp < 2048 THEN <<192 + (cp \div 64), 128 + (cp % 64)>>
    ELSE IF cp < 65536
         THEN <<224 + (cp \div 4096), 128 + ((cp \div 64) % 64), 128 + (cp % 64)>>
    ELSE <<240 + (cp \div 262144), 128 + ((cp \div 4096) % 64),
           128 + ((cp \div 64) % 64), 128 + (cp % 64)>>

RECURSIVE Utf8Encode(_)
Utf8Encode(u) ==
    IF u = <<>> THEN <<>>
    ELSE IF IsHighSurrogate(u[1]) /\ Len(u) >= 2 /\ IsLowSurrogate(u[2])
         THEN Utf8OfCodePoint(65536 + (u[1] - 55296) * 1024 + (u[2] - 56320))
                  \o Utf8Encode(Tail(Tail(u)))
    ELSE IF IsHighSurrogate(u[1]) \/ IsLowSurrogate(u[1])
         THEN <<239, 191, 189>> \o Utf8Encode(Tail(u))
    ELSE Utf8OfCodePoint(u[1]) \o Utf8Encode(Tail(u))

(***************************************************************************)
(* Buffer.toString('utf-8'): the code units of a byte sequence.  A byte    *)
(* that starts no well-formed sequence, or a sequence cut short, decodes   *)
(* to U+FFFD and decoding resumes at the first byte not consumed.          *)
(***************************************************************************)
IsCont(b) == b >= 128 /\ b <= 191

UnitsOfCodePoint(cp) ==
    IF cp < 65536 THEN <<cp>>
    ELSE <<55296 + ((cp - 65536) \div 1024), 56320 + ((cp - 65536) % 1024)>>

\* The bounds of the second byte after lead byte b (Unicode table 3-7).
SecondLo(b) == IF b = 224 THEN 160 ELSE IF b = 240 THEN 144 ELSE 128
SecondHi(b) == IF b = 237 THEN 159 ELSE IF b = 244 THEN 143 ELSE 191

RECURSIVE Utf8Decode(_)
Utf8Decode(b) ==
    IF b = <<>> THEN <<>>
    ELSE LET b1 == b[1]
             n  == Len(b)
             ok2 == n >= 2 /\ b[2] >= SecondLo(b1) /\ b[2] <= SecondHi(b1)
             ok3 == ok2 /\ n >= 3 /\ IsCont(b[3])
             ok4 == ok3 /\ n >= 4 /\ IsCont(b[4])
         IN  IF b1 < 128 THEN <<b1>> \o Utf8Decode(Tail(b))
             ELSE IF b1 >= 194 /\ b1 <= 223
                  THEN IF ok2
                       THEN <<(b1 - 192) * 64 + (b[2] - 128)>>
                                \o Utf8Decode(SubSeq(b, 3, n))
                       ELSE <<65533>> \o Utf8Decode(Tail(b))
             ELSE IF b1 >= 224 /\ b1 <= 239
                  THEN IF ok3
                       THEN <<(b1 - 224) * 4096 + (b[2] - 128) * 64 + (b[3] - 128)>>
                                \o Utf8Decode(SubSeq(b, 4, n))
                       ELSE <<65533>> \o Utf8Decode(SubSeq(b, IF ok2 THEN 3 ELSE 2, n))
             ELSE IF b1 >= 240 /\ b1 <= 244
                  THEN IF ok4
                       THEN UnitsOfCodePoint((b1 - 240) * 262144 + (b[2] - 128) * 4096
                                             + (b[3] - 128) * 64 + (b[4] - 128))
                                \o Utf8Decode(SubSeq(b, 5, n))
                       ELSE <<65533>>
                                \o Utf8Decode(SubSeq(b, IF ok3 THEN 4 ELSE IF ok2 THEN 3 ELSE 2, n))
             ELSE <<65533>> \o Utf8Decode(Tail(b))

(***************************************************************************)
(* Buffer.toString('base64') and Buffer.from(text, 'base64').              *)
(***************************************************************************)
Base64Alphabet == "ABCDEFGHIJKLMNOPQRSTUVWXYZabcdefghijklmnopqrstuvwxyz0123456789+/"

Base64Char(n) == At(Base64Alphabet, n + 1)

\* The value of a base64 character, 64 for a character outside the alphabet.
\* The decoder also reads the URL-safe '-' and '_' as 62 and 63.
Unbase64(c) ==
    IF c = "-" THEN 62
    ELSE IF c = "_" THEN 63
    ELSE IF IndexIn(Base64Alphabet, c) = 0 THEN 64
    ELSE IndexIn(Base64Alphabet, c) - 1

RECURSIVE Base64Encode(_)
Base64Encode(b) ==
    IF b = <<>> THEN ""
    ELSE IF Len(b) = 1
         THEN Base64Char(b[1] \div 4) \o Base64Char((b[1] % 4) * 16) \o "=="
    ELSE IF Len(b) = 2
         THEN Base64Char(b[1] \div 4) \o Base64Char((b[1] % 4) * 16 + (b[2] \div 16))
                  \o Base64Char((b[2] % 16) * 4) \o "="
    ELSE Base64Char(b[1] \div 4) \o Base64Char((b[1] % 4) * 16 + (b[2] \div 16))
             \o Base64Char((b[2] % 16) * 4 + (b[3] \div 64)) \o Base64Char(b[3] % 64)
             \o Base64Encode(SubSeq(b, 4, Len(b)))

\* The 6-bit values the decoder reads: characters outside the alphabet are
\* skipped and '=' ends the input.
RECURSIVE Sextets(_)
Sextets(t) ==
    IF t = "" \/ Head(t) = "=" THEN <<>>
    ELSE IF Unbase64(Head(t)) = 64 THEN Sextets(Tail(t))
    ELSE <<Unbase64(Head(t))>> \o Sextets(Tail(t))

RECURSIVE BytesOfSextets(_)
BytesOfSextets(x) ==
    IF Len(x) < 2 THEN <<>>
    ELSE IF Len(x) = 2 THEN <<x[1] * 4 + (x[2] \div 16)>>
    ELSE IF Len(x) = 3
         THEN <<x[1] * 4 + (x[2] \div 16), (x[2] % 16) * 16 + (x[3] \div 4)>>
    ELSE <<x[1] * 4 + (x[2] \div 16), (x[2] % 16) * 16 + (x[3] \div 4),
           (x[3] % 4) * 64 + x[4]>> \o BytesOfSextets(SubSeq(x, 5, Len(x)))

Base64Decode(t) == BytesOfSextets(Sextets(t))

(***************************************************************************)
(* The payload codec.                                                      *)
(***************************************************************************)
BASE64_PREFIX == "__JSX_BASE64__"
BASE64_SUFFIX == "__"

StartsWith(s, p) == Len(s) >= Len(p) /\ SubSeq(s, 1, Len(p)) = p
EndsWith(s, p) == Len(s) >= Len(p) /\ SubSeq(s, Len(s) - Len(p) + 1, Len(s)) = p

\* encodeJsx on a string given by its code units.
EncodeUnits(u) == BASE64_PREFIX \o Base64Encode(Utf8Encode(u)) \o BASE64_SUFFIX

\* The results of decodeJsx: null, or a string.
Null == [isNull |-> TRUE, value |-> ""]
Decoded(text) == [isNull |-> FALSE, value |-> text]

\* DecodeUnits with content.slice(BASE64_PREFIX.length): the suffix stays in
\* the text handed to the base64 decoder.
DecodeUnitsKeepSuffix(content) ==
    IF StartsWith(content, BASE64_PREFIX) /\ EndsWith(content, BASE64_SUFFIX)
    THEN [isNull |-> FALSE,
          units |-> Utf8Decode(Base64Decode(
              SubSeq(content, Len(BASE64_PREFIX) + 1, Len(content))))]
    ELSE [isNull |-> TRUE, units |-> <<>>]

\* decodeJsx, the string it returns given by its code units.
\* slice(p, -q) of a text shorter than p + q is the empty string.
DecodeUnits(content) ==
    IF StartsWith(content, BASE64_PREFIX) /\ EndsWith(content, BASE64_SUFFIX)
    THEN [isNull |-> FALSE,
          units |-> Utf8Decode(Base64Decode(
              SubSeq(content, Len(BASE64_PREFIX) + 1, Len(content) - Len(BASE64_SUFFIX))))]
    ELSE [isNull |-> TRUE, units |-> <<>>]

encodeJsx(content) == EncodeUnits(Units(content))

decodeJsx(content) ==
    IF DecodeUnits(content).isNull THEN Null ELSE Decoded(Str(DecodeUnits(content).units))

(***************************************************************************)
(* The attribute dictionary.  An object is the sequence of its entries     *)
(* <<key, value>> in insertion order, as Object.entries lists them.        *)
(***************************************************************************)
JsxToSvgLiteral == <<
    <<"strokeWidth", "stroke-width">>,
    <<"strokeLinecap", "stroke-linecap">>,
    <<"strokeLinejoin", "stroke-linejoin">>,
    <<"strokeDasharray", "stroke-dasharray">>,
    <<"strokeDashoffset", "stroke-dashoffset">>,
    <<"strokeMiterlimit", "stroke-miterlimit">>,
    <<"strokeOpacity", "stroke-opacity">>,
    <<"fillOpacity", "fill-opacity">>,
    <<"fillRule", "fill-rule">>,
    <<"clipPath", "clip-path">>,
    <<"clipRule", "clip-rule">>,
    <<"fontFamily", "font-family">>,
    <<"fontSize", "font-size">>,
    <<"fontStyle", "font-style">>,
    <<"fontWeight", "font-weight">>,
    <<"textAnchor", "text-anchor">>,
    <<"textDecoration", "text-decoration">>,
    <<"dominantBaseline", "dominant-baseline">>,
    <<"alignmentBaseline", "alignment-baseline">>,
    <<"baselineShift", "baseline-shift">>,
    <<"stopColor", "stop-color">>,
    <<"stopOpacity", "stop-opacity">>,
    <<"colorInterpolation", "color-interpolation">>,
    <<"colorInterpolationFilters", "color-interpolation-filters">>,
    <<"floodColor", "flood-color">>,
    <<"floodOpacity", "flood-opacity">>,
    <<"lightingColor", "lighting-color">>,
    <<"markerStart", "marker-start">>,
    <<"markerMid", "marker-mid">>,
    <<"markerEnd", "marker-end">>,
    <<"paintOrder", "paint-order">>,
    <<"vectorEffect", "vector-effect">>,
    <<"shapeRendering", "shape-rendering">>,
    <<"imageRendering", "image-rendering">>,
    <<"pointerEvents", "pointer-events">>,
    <<"xlinkHref", "xlink:href">> >>

\* Setting obj[key] = value: a key the object has keeps its place and takes
\* the new value, a new key is added last.
SetEntry(obj, key, value) ==
    IF \E i \in 1..Len(obj) : obj[i][1] = key
    THEN [i \in 1..Len(obj) |-> IF obj[i][1] = key THEN <<key, value>> ELSE obj[i]]
    ELSE Append(obj, <<key, value>>)

RECURSIVE ObjectFromEntriesOnto(_, _)
ObjectFromEntriesOnto(obj, entries) ==
    IF entries = <<>> THEN obj
    ELSE ObjectFromEntriesOnto(SetEntry(obj, entries[1][1], entries[1][2]), Tail(entries))

\* Object.fromEntries, and the evaluation of an object literal.
ObjectFromEntries(entries) == ObjectFromEntriesOnto(<<>>, entries)

ObjectKeys(obj) == [i \in 1..Len(obj) |-> obj[i][1]]

\* obj[key], the string "undefined" standing for a key the object lacks.
Lookup(obj, key) ==
    IF \E i \in 1..Len(obj) : obj[i][1] = key
    THEN obj[CHOOSE i \in 1..Len(obj) : obj[i][1] = key][2]
    ELSE "undefined"

\* SwapEntries that keeps the value on both sides.
SwapEntriesKeepValue(obj) == [i \in 1..Len(obj) |-> <<obj[i][2], obj[i][2]>>]

\* Object.entries(jsxToSvgAttributeMap).map(([jsx, svg]) => [svg, jsx])
SwapEntries(obj) == [i \in 1..Len(obj) |-> <<obj[i][2], obj[i][1]>>]

(***************************************************************************)
(* String and regular-expression primitives.  Positions named 0-based are  *)
(* JavaScript indices; SubSeq positions are 1-based.                       *)
(***************************************************************************)
Min(S) == CHOOSE i \in S : \A k \in S : i <= k

\* String.prototype.slice(a, b) for 0 <= a.
Slice(s, a, b) == SubSeq(s, a + 1, b)

MatchLiteralAt(s, i, lit) == i + Len(lit) - 1 <= Len(s) /\ SubSeq(s, i, i + Len(lit) - 1) = lit

\* The first 1-based position >= from where lit stands, 0 when there is none.
FindFrom(s, lit, from) ==
    LET hits == {i \in from..Len(s) : MatchLiteralAt(s, i, lit)}
    IN  IF hits = {} THEN 0 ELSE Min(hits)

\* String.prototype.indexOf(lit, from), 0-based, -1 when there is none.
IndexOf(s, lit, from) == FindFrom(s, lit, from + 1) - 1

CharSet(str) == {At(str, i) : i \in 1..Len(str)}

UpperChars == CharSet("ABCDEFGHIJKLMNOPQRSTUVWXYZ")
DigitChars == CharSet("0123456789")
\* \w
WordChars == UpperChars \cup DigitChars \cup CharSet("abcdefghijklmnopqrstuvwxyz_")

IsWordChar(c) == c \in WordChars

\* \b holding wherever a word character stands.
WordBoundaryAnywhere(s, i) == i <= Len(s) /\ IsWordChar(At(s, i))

\* \b at the 1-based position i: exactly one of the characters before and at
\* i is a word character.
WordBoundaryAt(s, i) ==
    (i > 1 /\ IsWordChar(At(s, i - 1))) # (i <= Len(s) /\ IsWordChar(At(s, i)))

\* The first position >= i that holds no character of set (Len(s) + 1 at the end).
RunEnd(s, i, set) ==
    LET stops == {k \in i..Len(s) : At(s, k) \notin set}
    IN  IF stops = {} THEN Len(s) + 1 ELSE Min(stops)

\* The positions of '=' in s.  Every literal that the transcoders look for at
\* a word boundary ends in '=', so only there a match can end.
EqualsPositions(s) == {k \in 1..Len(s) : At(s, k) = "="}

\* The positions >= from where /\b<lit>/ matches, for a literal <lit> ending
\* in '=' and eqs = EqualsPositions(s).
WordHits(s, eqs, from, lit) ==
    {i \in {k - Len(lit) + 1 : k \in eqs} :
        i >= from /\ MatchLiteralAt(s, i, lit) /\ WordBoundaryAt(s, i)}

\* s.replace(/\b<lit>/g, rep), from the position from on.
RECURSIVE ReplaceWordFrom(_, _, _, _, _)
ReplaceWordFrom(s, eqs, from, lit, rep) ==
    LET hits == WordHits(s, eqs, from, lit)
    IN  IF hits = {} THEN SubSeq(s, from, Len(s))
        ELSE SubSeq(s, from, Min(hits) - 1) \o rep
                 \o ReplaceWordFrom(s, eqs, Min(hits) + Len(lit), lit, rep)

ReplaceWord(s, lit, rep) == ReplaceWordFrom(s, EqualsPositions(s), 1, lit, rep)

\* /\b<lit>/.test(s)
TestWord(s, lit) == WordHits(s, EqualsPositions(s), 1, lit) # {}

\* Number to decimal text, as a template literal prints it.
RECURSIVE NumToStr(_)
NumToStr(n) ==
    IF n < 10 THEN At("0123456789", n + 1)
    ELSE NumToStr(n \div 10) \o At("0123456789", (n % 10) + 1)

\* s.replace(/<lit>/g, rep), for a literal <lit>.
RECURSIVE ReplaceLiteralFrom(_, _, _, _)
ReplaceLiteralFrom(s, from, lit, rep) ==
    IF FindFrom(s, lit, from) = 0 THEN SubSeq(s, from, Len(s))
    ELSE SubSeq(s, from, FindFrom(s, lit, from) - 1) \o rep
             \o ReplaceLiteralFrom(s, FindFrom(s, lit, from) + Len(lit), lit, rep)

ReplaceLiteral(s, lit, rep) == ReplaceLiteralFrom(s, 1, lit, rep)

(***************************************************************************)
(* isJsxSvg                                                                *)
(***************************************************************************)
\* MatchExpressionAt for /=\{[^}]*\}/, which admits the empty pair of braces.
MatchExpressionAtOrEmpty(s, i) ==
    IF MatchLiteralAt(s, i, "={") /\ FindFrom(s, "}", i + 2) > 0
    THEN FindFrom(s, "}", i + 2) ELSE 0

\* /=\{[^}]+\}/ matched at position i: the position of its closing brace, else 0.
MatchExpressionAt(s, i) ==
    IF MatchLiteralAt(s, i, "={") /\ FindFrom(s, "}", i + 2) > i + 2
    THEN FindFrom(s, "}", i + 2) ELSE 0

\* /\{\.\.\.([^}]+)\}/ matched at position i: the position of its closing brace, else 0.
MatchSpreadAt(s, i) ==
    IF MatchLiteralAt(s, i, "{...") /\ FindFrom(s, "}", i + 4) > i + 4
    THEN FindFrom(s, "}", i + 4) ELSE 0

\* isJsxSvg, lastIndex being the lastIndex of each regex of the loop when
\* its test starts: a g-flag regex searches from its lastIndex (0-based) on.
IsJsxSvgWith(svgContent, lastIndex) ==
    IF \E i \in 1..Len(svgContent) : MatchExpressionAt(svgContent, i) > 0 THEN TRUE
    ELSE IF \E i \in 1..Len(svgContent) : MatchSpreadAt(svgContent, i) > 0 THEN TRUE
    ELSE IF TestWord(svgContent, "className=") THEN TRUE
    ELSE LET eqs == EqualsPositions(svgContent)
         IN  \E n \in 1..Len(jsxToSvgAttributeMap) :
                 WordHits(svgContent, eqs, lastIndex + 1,
                          ObjectKeys(jsxToSvgAttributeMap)[n] \o "=") # {}

\* new RegExp(..., 'g'): the regex of every iteration is a new object, whose
\* lastIndex is 0.
isJsxSvg(svgContent) == IsJsxSvgWith(svgContent, 0)

(***************************************************************************)
(* replaceJsxExpressions.  The scanner state is the locals of the inner    *)
(* loop; j is the 0-based index of the next character.                     *)
(***************************************************************************)
QuoteChars == {"\"", "'", Backtick}

ScanStart(start) ==
    [j |-> start + 2, balance |-> 1, found |-> FALSE, inString |-> FALSE, stringChar |-> ""]

\* ScanChar leaving string mode at every occurrence of the remembered quote
\* character, the one after a backslash too.
ScanCharAnyQuote(content, st) ==
    LET char == At(content, st.j + 1)
        inString1 == IF st.inString THEN char # st.stringChar ELSE char \in QuoteChars
        stringChar1 == IF ~st.inString /\ char \in QuoteChars THEN char ELSE st.stringChar
        balance1 == IF st.inString \/ char \in QuoteChars THEN st.balance
                    ELSE IF char = "{" THEN st.balance + 1
                    ELSE IF char = "}" THEN st.balance - 1
                    ELSE st.balance
    IN  [j |-> st.j + 1, balance |-> balance1, found |-> ~inString1 /\ balance1 = 0,
         inString |-> inString1, stringChar |-> stringChar1]

\* One iteration of the inner while loop.
ScanChar(content, st) ==
    LET char == At(content, st.j + 1)
        prevChar == At(content, st.j)
        inString1 == IF st.inString
                     THEN ~(char = st.stringChar /\ prevChar # "\\")
                     ELSE char \in QuoteChars
        stringChar1 == IF ~st.inString /\ char \in QuoteChars THEN char ELSE st.stringChar
        balance1 == IF st.inString \/ char \in QuoteChars THEN st.balance
                    ELSE IF char = "{" THEN st.balance + 1
                    ELSE IF char = "}" THEN st.balance - 1
                    ELSE st.balance
    IN  [j |-> st.j + 1, balance |-> balance1, found |-> ~inString1 /\ balance1 = 0,
         inString |-> inString1, stringChar |-> stringChar1]

\* The inner while loop: it ends at the end of the text or at the break.
RECURSIVE ScanLoop(_, _)
ScanLoop(content, st) ==
    IF st.found \/ ~(st.j < Len(content)) THEN st
    ELSE ScanLoop(content, ScanChar(content, st))

\* ReplaceExpressionsFrom with a not-found branch that drops the '={'.
RECURSIVE ReplaceExpressionsFromDropping(_, _)
ReplaceExpressionsFromDropping(content, from) ==
    IF ~(from < Len(content)) THEN ""
    ELSE LET start == IndexOf(content, "={", from)
             st == ScanLoop(content, ScanStart(start))
         IN  IF start = -1 THEN Slice(content, from, Len(content))
             ELSE Slice(content, from, start)
                      \o (IF st.found
                          THEN "=\"" \o encodeJsx(Slice(content, start + 2, st.j - 1)) \o "\""
                                   \o ReplaceExpressionsFromDropping(content, st.j)
                          ELSE ReplaceExpressionsFromDropping(content, start + 2))

\* The text the outer loop appends to result from currentIndex = from on;
\* start is startIdx.
RECURSIVE ReplaceExpressionsFrom(_, _)
ReplaceExpressionsFrom(content, from) ==
    IF ~(from < Len(content)) THEN ""
    ELSE LET start == IndexOf(content, "={", from)
             st == ScanLoop(content, ScanStart(start))
         IN  IF start = -1 THEN Slice(content, from, Len(content))
             ELSE Slice(content, from, start)
                      \o (IF st.found
                          THEN "=\"" \o encodeJsx(Slice(content, start + 2, st.j - 1)) \o "\""
                                   \o ReplaceExpressionsFrom(content, st.j)
                          ELSE "={" \o ReplaceExpressionsFrom(content, start + 2))

replaceJsxExpressions(content) == ReplaceExpressionsFrom(content, 0)

(***************************************************************************)
(* convertJsxToSvg                                                         *)
(***************************************************************************)
\* ReplaceSpreadsFrom with a callback that forgets to increment spreadIndex.
RECURSIVE ReplaceSpreadsFromSameIndex(_, _, _)
ReplaceSpreadsFromSameIndex(s, from, spreadIndex) ==
    LET hits == {i \in from..Len(s) : MatchSpreadAt(s, i) > 0}
        i == Min(hits)
        close == MatchSpreadAt(s, i)
    IN  IF hits = {} THEN SubSeq(s, from, Len(s))
        ELSE SubSeq(s, from, i - 1)
                 \o "data-spread-" \o NumToStr(spreadIndex) \o "=\""
                 \o encodeJsx(SubSeq(s, i + 4, close - 1)) \o "\""
                 \o ReplaceSpreadsFromSameIndex(s, close + 1, spreadIndex)

\* svgContent.replace(/\{\.\.\.([^}]+)\}/g, callback), spreadIndex being the
\* counter the callback reads and increments.
RECURSIVE ReplaceSpreadsFrom(_, _, _)
ReplaceSpreadsFrom(s, from, spreadIndex) ==
    LET hits == {i \in from..Len(s) : MatchSpreadAt(s, i) > 0}
        i == Min(hits)
        close == MatchSpreadAt(s, i)
    IN  IF hits = {} THEN SubSeq(s, from, Len(s))
        ELSE SubSeq(s, from, i - 1)
                 \o "data-spread-" \o NumToStr(spreadIndex) \o "=\""
                 \o encodeJsx(SubSeq(s, i + 4, close - 1)) \o "\""
                 \o ReplaceSpreadsFrom(s, close + 1, spreadIndex + 1)

ReplaceSpreads(s) == ReplaceSpreadsFrom(s, 1, 0)

\* The for loop over Object.entries(map) from entry n on: each entry renames
\* \b<from>= to <to>=.  eqs = EqualsPositions(s); a pass that finds no match
\* leaves the text as it is.
RECURSIVE RenameAttributesFrom(_, _, _, _)
RenameAttributesFrom(s, eqs, map, n) ==
    LET renamed == ReplaceWordFrom(s, eqs, 1, map[n][1] \o "=", map[n][2] \o "=")
    IN  IF n > Len(map) THEN s
        ELSE IF WordHits(s, eqs, 1, map[n][1] \o "=") = {}
             THEN RenameAttributesFrom(s, eqs, map, n + 1)
        ELSE RenameAttributesFrom(renamed, EqualsPositions(renamed), map, n + 1)

RenameAttributes(s, map) == RenameAttributesFrom(s, EqualsPositions(s), map, 1)

\* /\b(on[A-Z]\w*)=/ matched at position i: the position of its '=', else 0.
MatchEventAt(s, i) ==
    IF /\ WordBoundaryAt(s, i)
       /\ MatchLiteralAt(s, i, "on")
       /\ i + 2 <= Len(s)
       /\ At(s, i + 2) \in UpperChars
       /\ MatchLiteralAt(s, RunEnd(s, i + 3, WordChars), "=")
    THEN RunEnd(s, i + 3, WordChars) ELSE 0

\* svgContent.replace(/\b(on[A-Z]\w*)=/g, 'data-jsx-event-$1=')
RECURSIVE RenameEventsFrom(_, _)
RenameEventsFrom(s, from) ==
    LET hits == {i \in from..Len(s) : MatchEventAt(s, i) > 0}
        i == Min(hits)
        eq == MatchEventAt(s, i)
    IN  IF hits = {} THEN SubSeq(s, from, Len(s))
        ELSE SubSeq(s, from, i - 1) \o "data-jsx-event-" \o SubSeq(s, i, eq - 1) \o "="
                 \o RenameEventsFrom(s, eq + 1)

RenameEvents(s) == RenameEventsFrom(s, 1)

\* convertJsxToSvg, spreadIndex being the value of its local counter when
\* the spread pass starts.
ConvertJsxToSvgWith(svgContent, spreadIndex) ==
    LET expressions == replaceJsxExpressions(svgContent)
        spreads == ReplaceSpreadsFrom(expressions, 1, spreadIndex)
        classes == ReplaceWord(spreads, "className=", "class=")
        attributes == RenameAttributes(classes, jsxToSvgAttributeMap)
        events == RenameEvents(attributes)
    IN  ReplaceWord(events, "style=", "data-better-svg-style=")

\* let spreadIndex = 0: the counter is a local of the call.
convertJsxToSvg(svgContent) == ConvertJsxToSvgWith(svgContent, 0)

(***************************************************************************)
(* convertSvgToJsx                                                         *)
(***************************************************************************)
\* /\bdata-spread-\d+="([^"]*)"/ matched at position i: the positions of the
\* opening and the closing quote, else <<0, 0>>.
MatchSpreadAttrAt(s, i) ==
    LET eq == RunEnd(s, i + 12, DigitChars)
    IN  IF /\ WordBoundaryAt(s, i)
           /\ MatchLiteralAt(s, i, "data-spread-")
           /\ eq > i + 12
           /\ MatchLiteralAt(s, eq, "=\"")
           /\ FindFrom(s, "\"", eq + 2) > 0
        THEN <<eq + 1, FindFrom(s, "\"", eq + 2)>> ELSE <<0, 0>>

\* The fallback of the spread callback for a value that is no payload.
UnescapeEntities(value) ==
    ReplaceLiteral(ReplaceLiteral(ReplaceLiteral(ReplaceLiteral(value,
        "&quot;", "\""), "&gt;", ">"), "&lt;", "<"), "&amp;", "&")

\* svgContent.replace(/\bdata-spread-\d+="([^"]*)"/g, callback)
RECURSIVE RestoreSpreadsFrom(_, _)
RestoreSpreadsFrom(s, from) ==
    LET hits == {i \in from..Len(s) : MatchSpreadAttrAt(s, i)[1] > 0}
        m == MatchSpreadAttrAt(s, Min(hits))
        value == SubSeq(s, m[1] + 1, m[2] - 1)
        decodedValue == decodeJsx(value)
    IN  IF hits = {} THEN SubSeq(s, from, Len(s))
        ELSE SubSeq(s, from, Min(hits) - 1)
                 \o (IF decodedValue # Null
                     THEN "{..." \o decodedValue.value \o "}"
                     ELSE "{..." \o UnescapeEntities(value) \o "}")
                 \o RestoreSpreadsFrom(s, m[2] + 1)

RestoreSpreads(s) == RestoreSpreadsFrom(s, 1)

\* /\bdata-jsx-event-(on[A-Z]\w*)="([^"]*)"/ matched at position i: the
\* positions of the '=' and of the closing quote, else <<0, 0>>.
MatchEventAttrAt(s, i) ==
    LET eq == RunEnd(s, i + 18, WordChars)
    IN  IF /\ WordBoundaryAt(s, i)
           /\ MatchLiteralAt(s, i, "data-jsx-event-on")
           /\ i + 17 <= Len(s)
           /\ At(s, i + 17) \in UpperChars
           /\ MatchLiteralAt(s, eq, "=\"")
           /\ FindFrom(s, "\"", eq + 2) > 0
        THEN <<eq, FindFrom(s, "\"", eq + 2)>> ELSE <<0, 0>>

\* svgContent.replace(/\bdata-jsx-event-(on[A-Z]\w*)="([^"]*)"/g, '$1="$2"')
RECURSIVE RestoreEventsFrom(_, _)
RestoreEventsFrom(s, from) ==
    LET hits == {i \in from..Len(s) : MatchEventAttrAt(s, i)[1] > 0}
        i == Min(hits)
        m == MatchEventAttrAt(s, i)
    IN  IF hits = {} THEN SubSeq(s, from, Len(s))
        ELSE SubSeq(s, from, i - 1)
                 \o SubSeq(s, i + 15, m[1] - 1) \o "=\"" \o SubSeq(s, m[1] + 2, m[2] - 1) \o "\""
                 \o RestoreEventsFrom(s, m[2] + 1)

RestoreEvents(s) == RestoreEventsFrom(s, 1)

\* /(\w+)=(["'])(__JSX_BASE64__[^"']*?__)\2/ matched at position i: the
\* positions of the '=' and of the closing quote, else <<0, 0>>.  The value
\* admits no quote character, so the closing quote is the first quote
\* character after the prefix; it must repeat the opening one and follow '__'.
MatchPayloadAttrAt(s, i) ==
    LET eq == RunEnd(s, i, WordChars)
        open == eq + 1
        rest == open + 1 + Len(BASE64_PREFIX)
        close == RunEnd(s, rest, CharSet(s) \ {"\"", "'"})
    IN  IF /\ eq > i
           /\ MatchLiteralAt(s, eq, "=")
           /\ open <= Len(s)
           /\ At(s, open) \in {"\"", "'"}
           /\ MatchLiteralAt(s, open + 1, BASE64_PREFIX)
           /\ close <= Len(s)
           /\ At(s, close) = At(s, open)
           /\ close - 2 >= rest
           /\ SubSeq(s, close - 2, close - 1) = "__"
        THEN <<eq, close>> ELSE <<0, 0>>

\* svgContent.replace(/(\w+)=(["'])(__JSX_BASE64__[^"']*?__)\2/g, callback)
RECURSIVE DecodePayloadsFrom(_, _)
DecodePayloadsFrom(s, from) ==
    LET hits == {i \in from..Len(s) : MatchPayloadAttrAt(s, i)[1] > 0}
        i == Min(hits)
        m == MatchPayloadAttrAt(s, i)
        attr == SubSeq(s, i, m[1] - 1)
        decodedValue == decodeJsx(SubSeq(s, m[1] + 2, m[2] - 1))
    IN  IF hits = {} THEN SubSeq(s, from, Len(s))
        ELSE SubSeq(s, from, i - 1)
                 \o (IF decodedValue # Null
                     THEN attr \o "={" \o decodedValue.value \o "}"
                     ELSE SubSeq(s, i, m[2]))
                 \o DecodePayloadsFrom(s, m[2] + 1)

DecodePayloads(s) == DecodePayloadsFrom(s, 1)

convertSvgToJsx(svgContent) ==
    LET classes == ReplaceWord(svgContent, "class=", "className=")
        attributes == RenameAttributes(classes, svgToJsxAttributeMap)
        spreads == RestoreSpreads(attributes)
        events == RestoreEvents(spreads)
        styles == ReplaceWord(events, "data-better-svg-style=", "style=")
    IN  DecodePayloads(styles)

(***************************************************************************)
(* The optimization bridge.                                                *)
(***************************************************************************)
\* prepareForOptimization converting whatever isJsxSvg answers.
PrepareUngated(svgContent) ==
    [preparedSvg |-> convertJsxToSvg(svgContent), wasJsx |-> isJsxSvg(svgContent)]

prepareForOptimization(svgContent) ==
    IF isJsxSvg(svgContent)
    THEN [preparedSvg |-> convertJsxToSvg(svgContent), wasJsx |-> TRUE]
    ELSE [preparedSvg |-> svgContent, wasJsx |-> FALSE]

finalizeAfterOptimization(optimizedSvg, wasJsx) ==
    IF wasJsx THEN convertSvgToJsx(optimizedSvg) ELSE optimizedSvg

(***************************************************************************)
(* The state machine.  The module is loaded (Init builds the two           *)
(* dictionaries), the editor types a text, and a caller classifies it,     *)
(* converts it forth and back, or takes it through the optimization        *)
(* bridge: prepare, the external optimizer, finalize.                      *)
(***************************************************************************)
\* The pieces of text the editor types.
Fragments == {
    " strokeWidth", " className", " onClick", " style", " stroke-width", " class",
    "={2}", "={{a:1}}", "={f(\"\\\\\")}", "={\"}\"}",
    "=\"a\"", "='a'", " {...p}", "={", "}" }

DictInit ==
    /\ jsxToSvgAttributeMap = ObjectFromEntries(JsxToSvgLiteral)
    /\ svgToJsxAttributeMap = ObjectFromEntries(SwapEntries(ObjectFromEntries(JsxToSvgLiteral)))

BridgeIdle ==
    /\ doc = "" /\ typed = 0 /\ pc = "edit" /\ isJsx = FALSE /\ svg = "" /\ jsx = ""
    /\ prepared = [preparedSvg |-> "", wasJsx |-> FALSE] /\ optimized = "" /\ finalized = ""

CodecIdle == body = <<>> /\ payload = "" /\ decoded = [isNull |-> TRUE, units |-> <<>>] /\ cpc = "edit"

ScanIdle ==
    /\ input = "" /\ scanTyped = 0 /\ result = "" /\ currentIndex = 0 /\ startIdx = 0
    /\ scan = ScanStart(0) /\ spc = "edit"

CallsIdle == callLog = <<>> /\ spreadCounter = 0 /\ regexLastIndex = 0

\* document.uri.toString() of the documents the editor has open.
Uris == {"file:///a.tsx", "file:///b.svg"}

\* provideHover returning null.
NoHover == [isNull |-> TRUE, dataUri |-> "", sizeBytes |-> 0, start |-> 0, end |-> 0]
NoEntry == [key |-> "", dataUri |-> "", sizeBytes |-> 0, timestamp |-> 0]
\* The last call made: its method and arguments, and for provideHover the
\* cache entry it was answered from (NoEntry when it rendered).
NoCall == [method |-> "", uri |-> "", position |-> 0, served |-> NoEntry]

\* The two objects as constructed (both maps empty), the documents empty,
\* the light theme.
EditorIdle ==
    /\ documents = [u \in Uris |-> ""] /\ theme = "Light" /\ clock = 0
    /\ cache = {} /\ hover = NoHover
    /\ decorationTypes = {} /\ created = <<>> /\ called = NoCall

Init == DictInit /\ BridgeIdle /\ CodecIdle /\ ScanIdle /\ CallsIdle /\ EditorIdle

Type(f) ==
    /\ pc = "edit" /\ typed < MaxFrags
    /\ doc' = doc \o f
    /\ typed' = typed + 1
    /\ UNCHANGED <<pc, isJsx, svg, jsx, prepared, optimized, finalized>>
    /\ UNCHANGED <<dictVars, codecVars, scanVars, callVars, editorVars>>

Classify ==
    /\ pc = "edit"
    /\ isJsx' = isJsxSvg(doc)
    /\ pc' = "classified"
    /\ UNCHANGED <<doc, typed, svg, jsx, prepared, optimized, finalized>>
    /\ UNCHANGED <<dictVars, codecVars, scanVars, callVars, editorVars>>

Convert ==
    /\ pc = "edit"
    /\ svg' = convertJsxToSvg(doc)
    /\ pc' = "converted"
    /\ UNCHANGED <<doc, typed, isJsx, jsx, prepared, optimized, finalized>>
    /\ UNCHANGED <<dictVars, codecVars, scanVars, callVars, editorVars>>

Restore ==
    /\ pc = "converted"
    /\ jsx' = convertSvgToJsx(svg)
    /\ pc' = "restored"
    /\ UNCHANGED <<doc, typed, isJsx, svg, prepared, optimized, finalized>>
    /\ UNCHANGED <<dictVars, codecVars, scanVars, callVars, editorVars>>

Prepare ==
    /\ pc = "edit"
    /\ prepared' = prepareForOptimization(doc)
    /\ pc' = "prepared"
    /\ UNCHANGED <<doc, typed, isJsx, svg, jsx, optimized, finalized>>
    /\ UNCHANGED <<dictVars, codecVars, scanVars, callVars, editorVars>>

\* The first payload value of s: the positions of the first character after
\* the prefix marker and of the quote that closes the value, <<0, 0>> when s
\* holds no payload value.
FirstPayload(s) ==
    LET i == FindFrom(s, BASE64_PREFIX, 1)
        first == i + Len(BASE64_PREFIX)
        close == RunEnd(s, first, CharSet(s) \ {"\"", "'"})
    IN  IF /\ i > 0
           /\ close <= Len(s)
           /\ close - 2 >= first
           /\ SubSeq(s, close - 2, close - 1) = BASE64_SUFFIX
        THEN <<first, close>> ELSE <<0, 0>>

\* s with the first character of the body of its first payload replaced by
\* the next character of the base64 alphabet.
MutatePayloadBody(s) ==
    LET at == FirstPayload(s)[1]
    IN  SubSeq(s, 1, at - 1)
            \o Base64Char((Unbase64(At(s, at)) + 1) % 64)
            \o SubSeq(s, at + 1, Len(s))

\* s with the suffix marker of its first payload removed.
CutPayloadSuffix(s) ==
    LET close == FirstPayload(s)[2]
    IN  SubSeq(s, 1, close - 3) \o SubSeq(s, close, Len(s))

\* The texts an optimizer returns that changed the text of the first payload
\* value of s.
MutatedPayloads(s) ==
    IF FirstPayload(s)[1] = 0 THEN {}
    ELSE {CutPayloadSuffix(s)}
             \cup (IF FirstPayload(s)[2] - 2 > FirstPayload(s)[1]
                   THEN {MutatePayloadBody(s)} ELSE {})

\* The external optimizer keeps every attribute it does not understand.
Optimize ==
    /\ pc = "prepared"
    /\ optimized' = prepared.preparedSvg
    /\ pc' = "optimized"
    /\ UNCHANGED <<doc, typed, isJsx, svg, jsx, prepared, finalized>>
    /\ UNCHANGED <<dictVars, codecVars, scanVars, callVars, editorVars>>

\* The attributes of s: s cut before every space, so that every piece but
\* the first starts with the space that precedes an attribute name.
RECURSIVE Pieces(_)
Pieces(s) ==
    IF s = "" THEN <<>>
    ELSE IF FindFrom(s, " ", 2) = 0 THEN <<s>>
    ELSE <<SubSeq(s, 1, FindFrom(s, " ", 2) - 1)>>
             \o Pieces(SubSeq(s, FindFrom(s, " ", 2), Len(s)))

RECURSIVE Join(_)
Join(pieces) == IF pieces = <<>> THEN "" ELSE Head(pieces) \o Join(Tail(pieces))

\* pieces without its j-th member.
Without(pieces, j) == SubSeq(pieces, 1, j - 1) \o SubSeq(pieces, j + 1, Len(pieces))

\* piece is a whole placeholder attribute with a quoted value.
IsPlaceholder(piece) ==
    /\ \/ StartsWith(piece, " data-spread-")
       \/ StartsWith(piece, " data-jsx-event-")
       \/ StartsWith(piece, " data-better-svg-style=")
    /\ At(piece, Len(piece)) \in {"\"", "'"}

\* The texts an optimizer returns that removed one whole placeholder
\* attribute of s and kept the rest.
DroppedPlaceholders(s) ==
    {Join(Without(Pieces(s), j)) : j \in {k \in 1..Len(Pieces(s)) : IsPlaceholder(Pieces(s)[k])}}

\* An optimizer that removes a placeholder attribute it does not know.
OptimizeDropping ==
    /\ pc = "prepared"
    /\ \E t \in DroppedPlaceholders(prepared.preparedSvg) : optimized' = t
    /\ pc' = "optimized"
    /\ UNCHANGED <<doc, typed, isJsx, svg, jsx, prepared, finalized>>
    /\ UNCHANGED <<dictVars, codecVars, scanVars, callVars, editorVars>>

\* An optimizer that breaks the contract and changes the text of a payload value.
OptimizeMutating ==
    /\ pc = "prepared"
    /\ \E t \in MutatedPayloads(prepared.preparedSvg) : optimized' = t
    /\ pc' = "optimized"
    /\ UNCHANGED <<doc, typed, isJsx, svg, jsx, prepared, finalized>>
    /\ UNCHANGED <<dictVars, codecVars, scanVars, callVars, editorVars>>

Finalize ==
    /\ pc = "optimized"
    /\ finalized' = finalizeAfterOptimization(optimized, prepared.wasJsx)
    /\ pc' = "done"
    /\ UNCHANGED <<doc, typed, isJsx, svg, jsx, prepared, optimized>>
    /\ UNCHANGED <<dictVars, codecVars, scanVars, callVars, editorVars>>

Next ==
    \/ \E f \in Fragments : Type(f)
    \/ Classify
    \/ Convert
    \/ Restore
    \/ Prepare
    \/ Optimize
    \/ OptimizeMutating
    \/ OptimizeDropping
    \/ Finalize

Spec == Init /\ [][Next]_vars

(***************************************************************************)
(* The codec alone: a caller builds a string, a UTF-16 code unit at a      *)
(* time, encodes it and decodes the payload.                               *)
(***************************************************************************)
\* 'a', '>', '?', U+00E9, U+20AC, a high surrogate, a low surrogate.
CodecUnits == {97, 62, 63, 233, 8364, 55357, 56832}

TypeUnit(u) ==
    /\ cpc = "edit" /\ Len(body) < MaxBody
    /\ body' = Append(body, u)
    /\ UNCHANGED <<payload, decoded, cpc>>
    /\ UNCHANGED <<dictVars, bridgeVars, scanVars, callVars, editorVars>>

Encode ==
    /\ cpc = "edit"
    /\ payload' = EncodeUnits(body)
    /\ cpc' = "encoded"
    /\ UNCHANGED <<body, decoded>>
    /\ UNCHANGED <<dictVars, bridgeVars, scanVars, callVars, editorVars>>

Decode ==
    /\ cpc = "encoded"
    /\ decoded' = DecodeUnits(payload)
    /\ cpc' = "decoded"
    /\ UNCHANGED <<body, payload>>
    /\ UNCHANGED <<dictVars, bridgeVars, scanVars, callVars, editorVars>>

NextCodec ==
    \/ \E u \in CodecUnits : TypeUnit(u)
    \/ Encode
    \/ Decode

SpecCodec == Init /\ [][NextCodec]_vars

(***************************************************************************)
(* C2.  Payload codec round trip.                                          *)
(***************************************************************************)
\* A string is well formed when every surrogate code unit has its partner:
\* a high surrogate is followed by a low one, a low one follows a high one.
WellFormed(u) ==
    \A i \in 1..Len(u) :
        /\ IsHighSurrogate(u[i]) => i < Len(u) /\ IsLowSurrogate(u[i + 1])
        /\ IsLowSurrogate(u[i]) => i > 1 /\ IsHighSurrogate(u[i - 1])

\* C2 as stated: for every string body, decodeJsx(encodeJsx(body)) returns
\* body, never null and never a different string.
C2_RoundTripEveryString ==
    cpc = "decoded" => ~decoded.isNull /\ decoded.units = body

\* C2 amended: for every well-formed string body (no surrogate code unit
\* without its partner), decodeJsx(encodeJsx(body)) returns body.
C2_RoundTripWellFormed ==
    cpc = "decoded" /\ WellFormed(body) => ~decoded.isNull /\ decoded.units = body

\* A body holding a surrogate pair, a 3-byte and a 1-byte character went
\* through the codec.
C2_Witness ==
    /\ cpc = "decoded" /\ WellFormed(body)
    /\ \E i \in 1..Len(body) : IsHighSurrogate(body[i])
    /\ \E i \in 1..Len(body) : body[i] < 128

(***************************************************************************)
(* replaceJsxExpressions step by step: one action for each way through an  *)
(* iteration of the outer loop and one for each iteration of the inner     *)
(* loop.                                                                   *)
(***************************************************************************)
\* '={', the braces, the three quote characters, a backslash and a pair of
\* backslashes.
ScanFragments == {"={", "{", "}", "\"", "'", Backtick, "\\", "\\\\"}

TypeScan(f) ==
    /\ spc = "edit" /\ scanTyped < MaxScan
    /\ input' = input \o f
    /\ scanTyped' = scanTyped + 1
    /\ UNCHANGED <<result, currentIndex, startIdx, scan, spc>>
    /\ UNCHANGED <<dictVars, bridgeVars, codecVars, callVars, editorVars>>

\* The call: result = '', currentIndex = 0.
EnterReplace ==
    /\ spc = "edit"
    /\ result' = "" /\ currentIndex' = 0
    /\ spc' = "outer"
    /\ UNCHANGED <<input, scanTyped, startIdx, scan>>
    /\ UNCHANGED <<dictVars, bridgeVars, codecVars, callVars, editorVars>>

\* The outer loop ends: its condition fails, or indexOf finds no '={' and the
\* rest of the text is appended before the break.
LeaveReplace ==
    /\ spc = "outer"
    /\ \/ /\ ~(currentIndex < Len(input))
          /\ UNCHANGED <<result, startIdx>>
       \/ /\ currentIndex < Len(input)
          /\ IndexOf(input, "={", currentIndex) = -1
          /\ startIdx' = -1
          /\ result' = result \o Slice(input, currentIndex, Len(input))
    /\ spc' = "done"
    /\ UNCHANGED <<input, scanTyped, currentIndex, scan>>
    /\ UNCHANGED <<dictVars, bridgeVars, codecVars, callVars, editorVars>>

\* indexOf finds '={': the text before it is appended and the scan starts.
OpenExpression ==
    /\ spc = "outer"
    /\ currentIndex < Len(input)
    /\ IndexOf(input, "={", currentIndex) # -1
    /\ startIdx' = IndexOf(input, "={", currentIndex)
    /\ result' = result \o Slice(input, currentIndex, startIdx')
    /\ scan' = ScanStart(startIdx')
    /\ spc' = "inner"
    /\ UNCHANGED <<input, scanTyped, currentIndex>>
    /\ UNCHANGED <<dictVars, bridgeVars, codecVars, callVars, editorVars>>

\* One iteration of the inner loop.
ScanStep ==
    /\ spc = "inner"
    /\ scan.j < Len(input) /\ ~scan.found
    /\ scan' = ScanChar(input, scan)
    /\ UNCHANGED <<input, scanTyped, result, currentIndex, startIdx, spc>>
    /\ UNCHANGED <<dictVars, bridgeVars, codecVars, callVars, editorVars>>

\* The inner loop ended at the break: the expression is encoded.
ExpressionFound ==
    /\ spc = "inner"
    /\ scan.found
    /\ result' = result \o "=\"" \o encodeJsx(Slice(input, startIdx + 2, scan.j - 1)) \o "\""
    /\ currentIndex' = scan.j
    /\ spc' = "outer"
    /\ UNCHANGED <<input, scanTyped, startIdx, scan>>
    /\ UNCHANGED <<dictVars, bridgeVars, codecVars, callVars, editorVars>>

\* ExpressionNotFound that drops the '={' it failed on.
ExpressionNotFoundDropping ==
    /\ spc = "inner"
    /\ ~scan.found /\ ~(scan.j < Len(input))
    /\ result' = result
    /\ currentIndex' = startIdx + 2
    /\ spc' = "outer"
    /\ UNCHANGED <<input, scanTyped, startIdx, scan>>
    /\ UNCHANGED <<dictVars, bridgeVars, codecVars, callVars, editorVars>>

\* ExpressionNotFound that resumes the search at the '={' it failed on.
ExpressionNotFoundNoSkip ==
    /\ spc = "inner"
    /\ ~scan.found /\ ~(scan.j < Len(input))
    /\ result' = result \o "={"
    /\ currentIndex' = startIdx
    /\ spc' = "outer"
    /\ UNCHANGED <<input, scanTyped, startIdx, scan>>
    /\ UNCHANGED <<dictVars, bridgeVars, codecVars, callVars, editorVars>>

\* The inner loop ended at the end of the text: '={' is skipped.
ExpressionNotFound ==
    /\ spc = "inner"
    /\ ~scan.found /\ ~(scan.j < Len(input))
    /\ result' = result \o "={"
    /\ currentIndex' = startIdx + 2
    /\ spc' = "outer"
    /\ UNCHANGED <<input, scanTyped, startIdx, scan>>
    /\ UNCHANGED <<dictVars, bridgeVars, codecVars, callVars, editorVars>>

NextScan ==
    \/ \E f \in ScanFragments : TypeScan(f)
    \/ EnterReplace
    \/ LeaveReplace
    \/ OpenExpression
    \/ ScanStep
    \/ ExpressionFound
    \/ ExpressionNotFound

SpecScan == Init /\ [][NextScan]_vars

\* The same on shorter texts, with the JavaScript engine running the call
\* to its end: a statement that can run does run.
TypeScanLive(f) == scanTyped < MaxScanLive /\ TypeScan(f)

NextScanLive ==
    \/ \E f \in ScanFragments : TypeScanLive(f)
    \/ EnterReplace
    \/ LeaveReplace
    \/ OpenExpression
    \/ ScanStep
    \/ ExpressionFound
    \/ ExpressionNotFound

SpecScanLive == Init /\ [][NextScanLive]_vars /\ WF_vars(NextScanLive)

(***************************************************************************)
(* The expression of a '={' as JavaScript reads it: the text up to the     *)
(* brace that closes it, where a string literal ('...', "..." or a         *)
(* template) is one unit that ends at its closing quote and in which a     *)
(* backslash takes the next character with it.  Positions are 1-based.     *)
(***************************************************************************)
\* The position of the quote q that closes the string literal whose contents
\* start at k, 0 when the text ends first.
RECURSIVE ExprStringEnd(_, _, _)
ExprStringEnd(s, k, q) ==
    IF k > Len(s) THEN 0
    ELSE IF At(s, k) = "\\" THEN ExprStringEnd(s, k + 2, q)
    ELSE IF At(s, k) = q THEN k
    ELSE ExprStringEnd(s, k + 1, q)

\* The position of the brace that closes the expression read from k on at
\* nesting depth, 0 when the text ends first.
RECURSIVE ExprClose(_, _, _)
ExprClose(s, k, depth) ==
    IF k > Len(s) THEN 0
    ELSE IF At(s, k) \in QuoteChars
         THEN IF ExprStringEnd(s, k + 1, At(s, k)) = 0 THEN 0
              ELSE ExprClose(s, ExprStringEnd(s, k + 1, At(s, k)) + 1, depth)
    ELSE IF At(s, k) = "{" THEN ExprClose(s, k + 1, depth + 1)
    ELSE IF At(s, k) = "}" THEN IF depth = 1 THEN k ELSE ExprClose(s, k + 1, depth - 1)
    ELSE ExprClose(s, k + 1, depth)

\* Every '={' met from position from on, outside the expressions before it,
\* has an expression with balanced braces.
RECURSIVE AllExpressionsBalanced(_, _)
AllExpressionsBalanced(s, from) ==
    LET open == FindFrom(s, "={", from)
    IN  IF open = 0 THEN TRUE
        ELSE /\ ExprClose(s, open + 2, 1) > 0
             /\ AllExpressionsBalanced(s, ExprClose(s, open + 2, 1) + 1)

\* The text from position from on with every '={expr}' replaced by '="P"',
\* P the payload of expr.
RECURSIVE WithExpressionsEncoded(_, _)
WithExpressionsEncoded(s, from) ==
    LET open == FindFrom(s, "={", from)
        close == ExprClose(s, open + 2, 1)
    IN  IF open = 0 \/ close = 0 THEN SubSeq(s, from, Len(s))
        ELSE SubSeq(s, from, open - 1)
                 \o "=\"" \o encodeJsx(SubSeq(s, open + 2, close - 1)) \o "\""
                 \o WithExpressionsEncoded(s, close + 1)

(***************************************************************************)
(* C3.  Nesting.                                                           *)
(***************************************************************************)
\* C3 as stated: for every '={' whose expression has balanced nested braces
\* the expression pass replaces the whole '={expr}' span, up to the brace
\* that closes the expression and never an inner one, by '="P"' where P is
\* the payload of expr.
C3_BalancedExpressionsEncoded ==
    spc = "done" /\ AllExpressionsBalanced(input, 1)
        => result = WithExpressionsEncoded(input, 1)

(***************************************************************************)
(* C4.  Quote guard.                                                       *)
(***************************************************************************)
\* One step of the scanner in string mode: the balance counter and the
\* remembered quote character stay, and string mode is left exactly when the
\* character read is the remembered quote character and the character
\* before it is no backslash.  Outside a string, string mode is entered
\* exactly on one of the three quote characters, which is then remembered.
C4_ScanStepGuardsQuotes ==
    spc = "inner" /\ scan' # scan =>
        LET char == At(input, scan.j + 1)
            prevChar == At(input, scan.j)
        IN  IF scan.inString
            THEN /\ scan'.balance = scan.balance
                 /\ scan'.stringChar = scan.stringChar
                 /\ scan'.inString = ~(char = scan.stringChar /\ prevChar # "\\")
            ELSE /\ scan'.inString = (char \in QuoteChars)
                 /\ scan'.inString => scan'.stringChar = char /\ scan'.balance = scan.balance

\* C4: in string mode braces and the other quote characters change neither
\* the balance counter nor the mode, and string mode is left only at the
\* remembered quote character not preceded by a backslash.
C4_QuoteGuard == [][C4_ScanStepGuardsQuotes]_vars

\* The expression {"}"} was scanned through its string, brace included, and
\* captured in full.
C4_Witness ==
    /\ spc = "done"
    /\ input = "={\"}\"}"
    /\ result = "=\"" \o encodeJsx("\"}\"") \o "\""

(***************************************************************************)
(* Texts built from pieces.                                                *)
(***************************************************************************)
\* x is a concatenation of members of pieces.
RECURSIVE IsBuiltFrom(_, _)
IsBuiltFrom(x, pieces) ==
    \/ x = ""
    \/ \E p \in pieces :
           /\ p # "" /\ StartsWith(x, p)
           /\ IsBuiltFrom(SubSeq(x, Len(p) + 1, Len(x)), pieces)

\* Brace-valued attribute values with balanced braces and quotes.
BraceValues == {"={2}", "={{a:1}}", "={f(\"\\\\\")}", "={\"}\"}"}

\* Quoted literal values.
QuotedValues == {"=\"a\"", "='a'"}

\* The attributes of the authoring dialect the transcoders support: a
\* dictionary name, className, an event name or style with a brace or quoted
\* value, and a spread.
SupportedAttributes ==
    {n \o v : n \in {" strokeWidth", " className", " onClick", " style"},
              v \in BraceValues \cup QuotedValues}
        \cup {" {...p}"}

\* The attributes of the standard dialect: kebab-case names and class with
\* quoted values.
StandardAttributes == {n \o v : n \in {" stroke-width", " class"}, v \in QuotedValues}

(***************************************************************************)
(* C1.  Round trip.                                                        *)
(***************************************************************************)
\* C1 as stated: for every authoring-dialect text x built only from supported
\* constructs, convertSvgToJsx(convertJsxToSvg(x)) equals x exactly.
C1_RoundTrip ==
    pc = "restored" /\ IsBuiltFrom(doc, SupportedAttributes) => jsx = doc

(***************************************************************************)
(* C5.  isJsxSvg.                                                          *)
(***************************************************************************)
\* text holds open, then one or more characters none of which is '}', then '}'.
HoldsBraced(text, open) ==
    \E i \in 1..Len(text), k \in 1..Len(text) :
        /\ MatchLiteralAt(text, i, open)
        /\ k > i + Len(open)
        /\ At(text, k) = "}"
        /\ \A m \in (i + Len(open))..(k - 1) : At(text, m) # "}"

\* text holds word at a word boundary: the character before it, if any, is
\* no letter, digit or underscore.
HoldsAtBoundary(text, word) ==
    \E i \in 1..Len(text) :
        /\ MatchLiteralAt(text, i, word)
        /\ i > 1 => At(text, i - 1) \notin WordChars

\* The four signs of the authoring dialect.
HasJsxSign(text) ==
    \/ HoldsBraced(text, "={")
    \/ HoldsBraced(text, "{...")
    \/ HoldsAtBoundary(text, "className=")
    \/ \E n \in 1..Len(JsxToSvgLiteral) : HoldsAtBoundary(text, JsxToSvgLiteral[n][1] \o "=")

\* C5: isJsxSvg(text) is true exactly when text holds one of the four signs,
\* and false for text that uses only kebab-case names and class=.
C5_DetectorExact ==
    pc = "classified" =>
        /\ isJsx = HasJsxSign(doc)
        /\ IsBuiltFrom(doc, StandardAttributes) => ~isJsx

\* A dictionary name after a space was classified as JSX, and so the last
\* of the four tests decided.
C5_Witness ==
    /\ pc = "classified"
    /\ doc = " strokeWidth='a'"
    /\ isJsx

(***************************************************************************)
(* C6.  Bridge gating.                                                     *)
(***************************************************************************)
\* C6: prepareForOptimization returns wasJsx = isJsxSvg(text) and the
\* converted text when wasJsx, the text itself otherwise;
\* finalizeAfterOptimization returns the restored text when wasJsx and its
\* argument itself otherwise.
C6_BridgeGating ==
    /\ pc \in {"prepared", "optimized", "done"} =>
           /\ prepared.wasJsx = isJsxSvg(doc)
           /\ prepared.wasJsx => prepared.preparedSvg = convertJsxToSvg(doc)
           /\ ~prepared.wasJsx => prepared.preparedSvg = doc
    /\ pc = "done" =>
           /\ prepared.wasJsx => finalized = convertSvgToJsx(optimized)
           /\ ~prepared.wasJsx => finalized = optimized

\* A text that is no JSX, though the forward transcoder would rewrite it,
\* went through the bridge untouched.
C6_Witness ==
    /\ pc = "done"
    /\ doc = " onClick=\"a\""
    /\ ~prepared.wasJsx
    /\ prepared.preparedSvg = doc
    /\ finalized = doc
    /\ convertJsxToSvg(doc) # doc

(***************************************************************************)
(* C7.  Spread numbering.                                                  *)
(***************************************************************************)
\* The number a run of decimal digits writes, acc being the number read so far.
RECURSIVE ParseDigits(_, _, _)
ParseDigits(s, i, acc) ==
    IF i > Len(s) \/ At(s, i) \notin DigitChars THEN acc
    ELSE ParseDigits(s, i + 1, 10 * acc + IndexIn("0123456789", At(s, i)) - 1)

\* The numbers that follow 'data-spread-' in s, in text order.
RECURSIVE SpreadNumbers(_, _)
SpreadNumbers(s, from) ==
    LET i == FindFrom(s, "data-spread-", from)
    IN  IF i = 0 THEN <<>>
        ELSE <<ParseDigits(s, i + 12, 0)>> \o SpreadNumbers(s, i + 12)

\* The number of spread occurrences in s from position from on.
RECURSIVE CountSpreads(_, _)
CountSpreads(s, from) ==
    LET hits == {i \in from..Len(s) : MatchSpreadAt(s, i) > 0}
    IN  IF hits = {} THEN 0
        ELSE 1 + CountSpreads(s, MatchSpreadAt(s, Min(hits)) + 1)

\* C7: within one convertJsxToSvg call the k-th spread in text order becomes
\* data-spread-k, so the indices are 0..m-1 in order with no gap or repeat.
C7_SpreadNumbering ==
    pc = "converted" =>
        SpreadNumbers(svg, 1) =
            [k \in 1..CountSpreads(replaceJsxExpressions(doc), 1) |-> k - 1]

\* Two spreads with an attribute between them got the indices 0 and 1.
C7_Witness ==
    /\ pc = "converted"
    /\ doc = " {...p} className {...p}"
    /\ svg = " data-spread-0=\"" \o encodeJsx("p") \o "\" className data-spread-1=\""
                 \o encodeJsx("p") \o "\""

(***************************************************************************)
(* C8.  Event handlers.                                                    *)
(***************************************************************************)
\* C8 as stated: an attribute on<Upper>...={expr} becomes the attribute
\* data-jsx-event-<name> whose quoted value is the payload of expr, and
\* convertSvgToJsx restores <name>={expr} byte for byte.
C8_EventHandlerRoundTrip ==
    \A v \in BraceValues :
        /\ pc \in {"converted", "restored"} /\ doc = " onClick" \o v =>
               svg = " data-jsx-event-onClick=\""
                         \o encodeJsx(SubSeq(v, 3, Len(v) - 1)) \o "\""
        /\ pc = "restored" /\ doc = " onClick" \o v => jsx = doc

(***************************************************************************)
(* C9.  Simple expressions.                                                *)
(***************************************************************************)
\* C9 as stated: a brace expression that is a plain number or identifier v
\* is emitted as the text v itself, so strokeWidth={2} becomes
\* stroke-width="2" and {...p} becomes data-spread-0="p".
C9_SimpleExpressionsPlain ==
    pc = "converted" =>
        /\ doc = " strokeWidth={2}" => svg = " stroke-width=\"2\""
        /\ doc = " {...p}" => svg = " data-spread-0=\"p\""

(***************************************************************************)
(* C10.  The dictionaries.                                                 *)
(***************************************************************************)
\* C10: no two keys of jsxToSvgAttributeMap share a value,
\* svgToJsxAttributeMap has as many entries, svgToJsxAttributeMap[svg] = jsx
\* for every pair (jsx, svg), and both maps are what the module built when
\* it was loaded, whatever calls were made.
C10_DictionaryBijection ==
    /\ \A a, b \in 1..Len(jsxToSvgAttributeMap) :
           a # b => /\ jsxToSvgAttributeMap[a][1] # jsxToSvgAttributeMap[b][1]
                    /\ jsxToSvgAttributeMap[a][2] # jsxToSvgAttributeMap[b][2]
    /\ Len(svgToJsxAttributeMap) = Len(jsxToSvgAttributeMap)
    /\ \A a, b \in 1..Len(svgToJsxAttributeMap) :
           a # b => svgToJsxAttributeMap[a][1] # svgToJsxAttributeMap[b][1]
    /\ \A a \in 1..Len(jsxToSvgAttributeMap) :
           Lookup(svgToJsxAttributeMap, jsxToSvgAttributeMap[a][2]) = jsxToSvgAttributeMap[a][1]
    /\ jsxToSvgAttributeMap = JsxToSvgLiteral
    /\ \A a \in 1..Len(JsxToSvgLiteral) :
           Lookup(jsxToSvgAttributeMap, JsxToSvgLiteral[a][1]) = JsxToSvgLiteral[a][2]

\* Both transcoders ran on a text with a dictionary name, and the maps still
\* lead from strokeWidth to stroke-width and back.
C10_Witness ==
    /\ pc = "restored"
    /\ doc = " strokeWidth=\"a\""
    /\ svg = " stroke-width=\"a\""
    /\ jsx = doc
    /\ Lookup(jsxToSvgAttributeMap, "strokeWidth") = "stroke-width"
    /\ Lookup(svgToJsxAttributeMap, "stroke-width") = "strokeWidth"

(***************************************************************************)
(* C11.  Termination of the expression pass.                               *)
(***************************************************************************)
\* One iteration of the outer loop moves currentIndex strictly forward: to
\* the index after the closing brace on success, to the index after '={' on
\* failure; one iteration of the inner loop moves j forward by one.
C11_LoopAdvances ==
    /\ spc = "inner" /\ spc' = "outer" =>
           /\ currentIndex' > currentIndex
           /\ currentIndex' >= startIdx + 2
           /\ scan.found => currentIndex' = scan.j
           /\ ~scan.found => currentIndex' = startIdx + 2
    /\ spc = "inner" /\ spc' = "inner" /\ scan' # scan => scan'.j = scan.j + 1

\* C11: the expression-substitution loop strictly advances its scan position
\* on every iteration, and a call of replaceJsxExpressions that has started
\* returns, whatever the text and however many unmatched '={' it holds.
C11_Terminates == [][C11_LoopAdvances]_vars /\ (spc = "outer" ~> spc = "done")

\* A text of three unmatched '={' went through the loop and came out as it was.
C11_Witness ==
    /\ spc = "done"
    /\ input = "={={={"
    /\ result = input
    /\ currentIndex = 6

(***************************************************************************)
(* C12.  Unterminated expressions.                                         *)
(***************************************************************************)
\* The scanner, started after the '={' at 0-based index start, reaches the
\* end of content without the balance returning to 0 outside a string.
Unterminated(content, start) == ~ScanLoop(content, ScanStart(start)).found

\* Every '={' of content is unterminated.
AllUnterminated(content) ==
    \A i \in 1..Len(content) :
        MatchLiteralAt(content, i, "={") => Unterminated(content, i - 1)

\* The step that ends a scan at the end of the text: '={' is appended to
\* result and nothing else, the text is untouched, and the search resumes
\* directly after that '={'.
C12_NotFoundStep ==
    spc = "inner" /\ spc' = "outer" /\ Unterminated(input, startIdx) =>
        /\ Slice(input, startIdx, startIdx + 2) = "={"
        /\ result' = result \o "={"
        /\ input' = input
        /\ currentIndex' = startIdx + 2

\* C12: an unterminated '={' is emitted unchanged, no other character is
\* altered because of it, the search resumes directly after it, and a text
\* all of whose '={' are unterminated leaves the expression pass unchanged.
C12_UnterminatedLeftAlone ==
    /\ [][C12_NotFoundStep]_vars
    /\ [](spc = "done" /\ AllUnterminated(input) => result = input)
    /\ [](spc = "outer" =>
              result \o ReplaceExpressionsFrom(input, currentIndex)
                  = replaceJsxExpressions(input))

\* An unterminated '={' was emitted as it was and the '={}' directly after it
\* was still found and encoded.
C12_Witness ==
    /\ spc = "done"
    /\ input = "={={}"
    /\ Unterminated(input, 0)
    /\ result = "={" \o "=\"" \o encodeJsx("") \o "\""

(***************************************************************************)
(* C13.  Mutated payloads.                                                 *)
(***************************************************************************)
\* The bodies of the brace expressions of s from position from on.
RECURSIVE BraceBodies(_, _)
BraceBodies(s, from) ==
    LET open == FindFrom(s, "={", from)
        close == ExprClose(s, open + 2, 1)
    IN  IF open = 0 THEN {}
        ELSE IF close = 0 THEN BraceBodies(s, open + 2)
        ELSE {SubSeq(s, open + 2, close - 1)} \cup BraceBodies(s, close + 1)

\* The bodies of the spreads of s from position from on.
RECURSIVE SpreadBodies(_, _)
SpreadBodies(s, from) ==
    LET hits == {i \in from..Len(s) : MatchSpreadAt(s, i) > 0}
        i == Min(hits)
    IN  IF hits = {} THEN {}
        ELSE {SubSeq(s, i + 4, MatchSpreadAt(s, i) - 1)}
                 \cup SpreadBodies(s, MatchSpreadAt(s, i) + 1)

\* C13 as stated: when the step between prepare and finalize changes the text
\* of a payload value, the value fails to decode and the final output holds
\* the envelope text as a literal leftover; finalize emits no brace
\* expression and no spread whose body differs from the one encoded.
C13_MutatedPayloadLeftOver ==
    /\ pc = "done"
    /\ prepared.wasJsx
    /\ optimized \in MutatedPayloads(prepared.preparedSvg)
    => /\ FindFrom(finalized, BASE64_PREFIX, 1) > 0
       /\ BraceBodies(finalized, 1) \subseteq BraceBodies(doc, 1)
       /\ SpreadBodies(finalized, 1) \subseteq SpreadBodies(doc, 1)

(***************************************************************************)
(* C14.  Dropped placeholders.                                             *)
(***************************************************************************)
\* C14 as stated: when the step between prepare and finalize removes one
\* whole placeholder attribute and leaves the rest of the prepared text
\* intact, finalize returns the original text with only that construct
\* missing, every remaining construct restored exactly, the remaining
\* spreads whatever their index numbers.
C14_DroppedPlaceholder ==
    /\ pc = "done"
    /\ prepared.wasJsx
    /\ IsBuiltFrom(doc, SupportedAttributes)
    => \A j \in 1..Len(Pieces(prepared.preparedSvg)) :
           /\ IsPlaceholder(Pieces(prepared.preparedSvg)[j])
           /\ optimized = Join(Without(Pieces(prepared.preparedSvg), j))
           => finalized = Join(Without(Pieces(doc), j))

(***************************************************************************)
(* C15.  Texts that are no JSX.                                            *)
(***************************************************************************)
\* C15 as stated: for every text that isJsxSvg classifies as not JSX,
\* convertJsxToSvg returns the text unchanged.
C15_StandardTextUnchanged ==
    pc = "converted" /\ ~isJsxSvg(doc) => svg = doc

\* text holds one of the three things the forward transcoder rewrites and
\* the detector does not look for: an on<Upper>...= attribute name, style=
\* at a word boundary, and the empty brace value '={}'.
HasUndetectedRewrite(text) ==
    \/ \E i \in 1..Len(text) : MatchEventAt(text, i) > 0
    \/ HoldsAtBoundary(text, "style=")
    \/ FindFrom(text, "={}", 1) > 0

\* C15, amended: for every text that isJsxSvg classifies as not JSX and that
\* holds no on<Upper>...= attribute, no style= and no '={}', convertJsxToSvg
\* returns the text unchanged.
C15_StandardTextUnchangedButEventsAndStyle ==
    pc = "converted" /\ ~isJsxSvg(doc) /\ ~HasUndetectedRewrite(doc) => svg = doc

\* A text of the standard dialect was converted and came back as it was.
C15_Witness ==
    /\ pc = "converted"
    /\ doc = " stroke-width=\"a\" class"
    /\ ~isJsxSvg(doc)
    /\ svg = doc

(***************************************************************************)
(* Calls in sequence.  The functions are synchronous, so calls interleave  *)
(* as wholes.  What could carry over from one call to the next is kept as  *)
(* state: the value the spread counter was left with and the lastIndex the *)
(* latest g-flag regex was left with.                                      *)
(***************************************************************************)
\* The texts the callers pass.
CallTexts == {" {...p} {...p}", " strokeWidth=\"a\""}

\* A spread counter that lives on between the calls.
StaleSpreadIndex == spreadCounter

\* let spreadIndex = 0
FreshSpreadIndex == 0

\* new RegExp(`\\b${jsxAttr}=`, 'g').lastIndex
FreshLastIndex == 0

\* The spread counter after the spread pass that started it at spreadIndex.
SpreadIndexAfter(svgContent, spreadIndex) ==
    spreadIndex + CountSpreads(replaceJsxExpressions(svgContent), 1)

\* The lastIndex of the regex that isJsxSvg tested last: the index after the
\* match when a test succeeded, 0 when every test failed; previous when no
\* regex of the loop was made.
LastIndexAfter(svgContent, lastIndex, previous) ==
    LET eqs == EqualsPositions(svgContent)
        keys == ObjectKeys(jsxToSvgAttributeMap)
        hits(n) == WordHits(svgContent, eqs, lastIndex + 1, keys[n] \o "=")
        matching == {n \in 1..Len(keys) : hits(n) # {}}
    IN  IF \/ \E i \in 1..Len(svgContent) : MatchExpressionAt(svgContent, i) > 0
           \/ \E i \in 1..Len(svgContent) : MatchSpreadAt(svgContent, i) > 0
           \/ TestWord(svgContent, "className=")
        THEN previous
        ELSE IF matching = {} THEN 0
        ELSE Min(hits(Min(matching))) + Len(keys[Min(matching)])

\* A call and its result.
Call(fn, text, flag, ret) == [fn |-> fn, text |-> text, flag |-> flag, ret |-> ret]

CallIsJsxSvg(t) ==
    /\ Len(callLog) < MaxCalls
    /\ callLog' = Append(callLog, Call("isJsxSvg", t, FALSE, IsJsxSvgWith(t, FreshLastIndex)))
    /\ regexLastIndex' = LastIndexAfter(t, FreshLastIndex, regexLastIndex)
    /\ UNCHANGED spreadCounter
    /\ UNCHANGED <<dictVars, bridgeVars, codecVars, scanVars, editorVars>>

\* Every String.replace with a g-flag regex leaves its lastIndex at 0.
CallConvertJsxToSvg(t) ==
    /\ Len(callLog) < MaxCalls
    /\ callLog' = Append(callLog,
           Call("convertJsxToSvg", t, FALSE, ConvertJsxToSvgWith(t, FreshSpreadIndex)))
    /\ spreadCounter' = SpreadIndexAfter(t, FreshSpreadIndex)
    /\ regexLastIndex' = 0
    /\ UNCHANGED <<dictVars, bridgeVars, codecVars, scanVars, editorVars>>

CallConvertSvgToJsx(t) ==
    /\ Len(callLog) < MaxCalls
    /\ callLog' = Append(callLog, Call("convertSvgToJsx", t, FALSE, convertSvgToJsx(t)))
    /\ regexLastIndex' = 0
    /\ UNCHANGED spreadCounter
    /\ UNCHANGED <<dictVars, bridgeVars, codecVars, scanVars, editorVars>>

CallPrepare(t) ==
    /\ Len(callLog) < MaxCalls
    /\ callLog' = Append(callLog, Call("prepareForOptimization", t, FALSE,
           IF IsJsxSvgWith(t, FreshLastIndex)
           THEN [preparedSvg |-> ConvertJsxToSvgWith(t, FreshSpreadIndex), wasJsx |-> TRUE]
           ELSE [preparedSvg |-> t, wasJsx |-> FALSE]))
    /\ spreadCounter' = IF IsJsxSvgWith(t, FreshLastIndex)
                        THEN SpreadIndexAfter(t, FreshSpreadIndex) ELSE spreadCounter
    /\ regexLastIndex' = 0
    /\ UNCHANGED <<dictVars, bridgeVars, codecVars, scanVars, editorVars>>

CallFinalize(t, w) ==
    /\ Len(callLog) < MaxCalls
    /\ callLog' = Append(callLog, Call("finalizeAfterOptimization", t, w,
           IF w THEN convertSvgToJsx(t) ELSE t))
    /\ regexLastIndex' = IF w THEN 0 ELSE regexLastIndex
    /\ UNCHANGED spreadCounter
    /\ UNCHANGED <<dictVars, bridgeVars, codecVars, scanVars, editorVars>>

NextCalls ==
    \/ \E t \in CallTexts : CallIsJsxSvg(t)
    \/ \E t \in CallTexts : CallConvertJsxToSvg(t)
    \/ \E t \in CallTexts : CallConvertSvgToJsx(convertJsxToSvg(t))
    \/ \E t \in CallTexts : CallPrepare(t)
    \/ \E t \in CallTexts, w \in BOOLEAN : CallFinalize(convertJsxToSvg(t), w)

SpecCalls == Init /\ [][NextCalls]_vars

(***************************************************************************)
(* C16.  No state is shared between calls.                                 *)
(***************************************************************************)
\* The result of a call made alone.
AloneResult(call) ==
    CASE call.fn = "isJsxSvg" -> isJsxSvg(call.text)
      [] call.fn = "convertJsxToSvg" -> convertJsxToSvg(call.text)
      [] call.fn = "convertSvgToJsx" -> convertSvgToJsx(call.text)
      [] call.fn = "prepareForOptimization" -> prepareForOptimization(call.text)
      [] call.fn = "finalizeAfterOptimization" ->
             finalizeAfterOptimization(call.text, call.flag)

\* C16: in any sequence of calls each call's result equals the result of the
\* same call made alone, and the spread index starts again at 0 in every
\* convertJsxToSvg call.  The call looked at is the latest one, every call
\* being the latest in the state it returns to.
C16_NoCrossCallState ==
    \A k \in {Len(callLog)} \ {0} :
        /\ callLog[k].ret = AloneResult(callLog[k])
        /\ callLog[k].fn = "convertJsxToSvg" =>
               SpreadNumbers(callLog[k].ret, 1) =
                   [i \in 1..CountSpreads(replaceJsxExpressions(callLog[k].text), 1) |-> i - 1]

\* After a call that left the counter at 2 and a call that left a regex with
\* a lastIndex above 0, a third call numbered its spreads from 0 again.
C16_Witness ==
    /\ Len(callLog) = 3
    /\ callLog[1].fn = "convertJsxToSvg" /\ callLog[1].text = " {...p} {...p}"
    /\ callLog[2].fn = "isJsxSvg" /\ callLog[2].text = " strokeWidth=\"a\"" /\ callLog[2].ret
    /\ callLog[3].fn = "convertJsxToSvg" /\ callLog[3].text = " {...p} {...p}"
    /\ SpreadNumbers(callLog[3].ret, 1) = <<0, 1>>
    /\ regexLastIndex = 0


(***************************************************************************)
(* convertSvgToJsx on a text that did not come from convertJsxToSvg: an    *)
(* SVG file, or what an optimizer made of one, built a piece at a time and *)
(* then restored.                                                          *)
(***************************************************************************)
MaxSvgFrags == 4

\* The pieces of SVG text: a spread placeholder and a plain attribute up to
\* the opening quote, the quotes, the payload of 'p', the bare prefix
\* marker, text that ends as the suffix marker does, and entities.
SvgFragments == {
    " data-spread-0=\"", " x=\"", " x='", "\"", "'",
    "__JSX_BASE64__cA==__", "__JSX_BASE64__", "a__", "a",
    "&amp;", "quot;", "&quot;", "&lt;&gt;"}

TypeSvg(f) ==
    /\ pc = "edit" /\ typed < MaxSvgFrags
    /\ svg' = svg \o f
    /\ typed' = typed + 1
    /\ UNCHANGED <<doc, pc, isJsx, jsx, prepared, optimized, finalized>>
    /\ UNCHANGED <<dictVars, codecVars, scanVars, callVars, editorVars>>

RestoreTyped ==
    /\ pc = "edit"
    /\ jsx' = convertSvgToJsx(svg)
    /\ pc' = "restored"
    /\ UNCHANGED <<doc, typed, isJsx, svg, prepared, optimized, finalized>>
    /\ UNCHANGED <<dictVars, codecVars, scanVars, callVars, editorVars>>

NextRestore ==
    \/ \E f \in SvgFragments : TypeSvg(f)
    \/ RestoreTyped

SpecRestore == Init /\ [][NextRestore]_vars


(***************************************************************************)
(* C17.  Spread restoration with its fallback.                             *)
(***************************************************************************)
\* Base64 text: groups of four characters of the alphabet, the last group
\* ending in at most two '='.
IsBase64Text(t) ==
    LET pad == IF EndsWith(t, "==") THEN 2 ELSE IF EndsWith(t, "=") THEN 1 ELSE 0
    IN  /\ Len(t) % 4 = 0
        /\ \A k \in 1..(Len(t) - pad) : IndexIn(Base64Alphabet, At(t, k)) > 0

\* A payload envelope: the prefix marker, a base64 body, the suffix marker.
IsEnvelope(v) ==
    /\ Len(v) >= Len(BASE64_PREFIX) + Len(BASE64_SUFFIX)
    /\ StartsWith(v, BASE64_PREFIX)
    /\ EndsWith(v, BASE64_SUFFIX)
    /\ IsBase64Text(SubSeq(v, Len(BASE64_PREFIX) + 1, Len(v) - Len(BASE64_SUFFIX)))

\* v with every entity unescaped once, in one pass from the left.
RECURSIVE UnescapedOnce(_)
UnescapedOnce(v) ==
    IF v = "" THEN ""
    ELSE IF StartsWith(v, "&quot;") THEN "\"" \o UnescapedOnce(SubSeq(v, 7, Len(v)))
    ELSE IF StartsWith(v, "&gt;") THEN ">" \o UnescapedOnce(SubSeq(v, 5, Len(v)))
    ELSE IF StartsWith(v, "&lt;") THEN "<" \o UnescapedOnce(SubSeq(v, 5, Len(v)))
    ELSE IF StartsWith(v, "&amp;") THEN "&" \o UnescapedOnce(SubSeq(v, 6, Len(v)))
    ELSE At(v, 1) \o UnescapedOnce(SubSeq(v, 2, Len(v)))

\* s from position from on with every data-spread-<digits>="v" replaced by
\* {...decodeJsx(v)} when v is an envelope and by {...u} otherwise.
RECURSIVE SpreadsRestoredAsStated(_, _)
SpreadsRestoredAsStated(s, from) ==
    LET hits == {i \in from..Len(s) : MatchSpreadAttrAt(s, i)[1] > 0}
        m == MatchSpreadAttrAt(s, Min(hits))
        v == SubSeq(s, m[1] + 1, m[2] - 1)
    IN  IF hits = {} THEN SubSeq(s, from, Len(s))
        ELSE SubSeq(s, from, Min(hits) - 1)
                 \o "{..." \o (IF IsEnvelope(v) THEN decodeJsx(v).value ELSE UnescapedOnce(v))
                 \o "}" \o SpreadsRestoredAsStated(s, m[2] + 1)

\* C17: convertSvgToJsx emits {...decodeJsx(v)} for each data-spread-<n>="v"
\* whose v is a payload envelope, and otherwise {...u}, u being v with
\* &quot;, &gt;, &lt; and &amp; unescaped once; the generic payload pass
\* then runs over the text.
C17_SpreadFallback ==
    pc = "restored" => jsx = DecodePayloads(SpreadsRestoredAsStated(svg, 1))


(***************************************************************************)
(* C18.  Generic payload decoding.                                         *)
(***************************************************************************)
\* The attribute values of s: <<e, c>> for every '=' at e that follows a
\* name character and is followed by a quote, c the position of the next
\* quote of the same kind.
QuotedValuesOf(s) ==
    {<<e, FindFrom(s, At(s, e + 1), e + 2)>> :
        e \in {k \in 2..(Len(s) - 1) :
                  /\ At(s, k) = "="
                  /\ IsWordChar(At(s, k - 1))
                  /\ At(s, k + 1) \in {"\"", "'"}
                  /\ FindFrom(s, At(s, k + 1), k + 2) > 0}}

\* s from position from on with ="V" and ='V' replaced by ={decodeJsx(V)}
\* wherever the whole of V is a payload envelope, and all else kept.
RECURSIVE WholeEnvelopesDecoded(_, _)
WholeEnvelopesDecoded(s, from) ==
    LET values == {q \in QuotedValuesOf(s) :
                      q[1] >= from /\ IsEnvelope(SubSeq(s, q[1] + 2, q[2] - 1))}
        q == CHOOSE x \in values : \A y \in values : x[1] <= y[1]
    IN  IF values = {} THEN SubSeq(s, from, Len(s))
        ELSE SubSeq(s, from, q[1] - 1)
                 \o "={" \o decodeJsx(SubSeq(s, q[1] + 2, q[2] - 1)).value \o "}"
                 \o WholeEnvelopesDecoded(s, q[2] + 1)

\* C18: after the spread pass convertSvgToJsx rewrites name="V" and name='V'
\* to name={decoded} only where the whole of V is a payload envelope; every
\* other attribute value is left unchanged.
C18_WholeValueEnvelopesOnly ==
    pc = "restored" => jsx = WholeEnvelopesDecoded(RestoreSpreads(svg), 1)


(***************************************************************************)
(* decodeJsx on a value it did not make: the value is built a piece at a   *)
(* time and then decoded.                                                  *)
(***************************************************************************)
MaxPieces == 3

\* The pieces of a value: the two markers, the base64 text of 'p' with and
\* without its padding, a letter and a character outside the alphabet.
ValuePieces == {"__JSX_BASE64__", "__", "cA==", "cA", "a", "!"}

TypeValue(f) ==
    /\ cpc = "edit" /\ typed < MaxPieces
    /\ payload' = payload \o f
    /\ typed' = typed + 1
    /\ UNCHANGED <<body, decoded, cpc>>
    /\ UNCHANGED <<doc, pc, isJsx, svg, jsx, prepared, optimized, finalized>>
    /\ UNCHANGED <<dictVars, scanVars, callVars, editorVars>>

DecodeTyped ==
    /\ cpc = "edit"
    /\ decoded' = DecodeUnits(payload)
    /\ cpc' = "decoded"
    /\ UNCHANGED <<body, payload>>
    /\ UNCHANGED <<dictVars, bridgeVars, scanVars, callVars, editorVars>>

NextDecode ==
    \/ \E f \in ValuePieces : TypeValue(f)
    \/ DecodeTyped

SpecDecode == Init /\ [][NextDecode]_vars

(***************************************************************************)
(* C19.  Values that are no envelope.                                      *)
(***************************************************************************)
\* C19 as stated: decodeJsx returns null for every string that is not the
\* prefix marker followed by a base64 body followed by the suffix marker,
\* and a string only for a well-formed envelope.
C19_NullUnlessEnvelope ==
    cpc = "decoded" => (decoded.isNull <=> ~IsEnvelope(payload))


(***************************************************************************)
(* convertJsxToSvg on texts whose expression bodies hold what the later    *)
(* passes look for.                                                        *)
(***************************************************************************)
\* Attribute names, a spread, and brace values whose bodies hold className=,
\* a dictionary name and '=', an event name and '=', style=, a spread, and
\* an identifier with an ideograph.
BodyFragments == {
    " x", " onClick", " {...p}", "={2}",
    "={className=1}", "={strokeWidth=1}", "={onClick=1}", "={style=1}", "={{...x}}",
    "={a\ra}" }

NextBodies ==
    \/ \E f \in BodyFragments : Type(f)
    \/ Convert

SpecBodies == Init /\ [][NextBodies]_vars

(***************************************************************************)
(* C20.  The passes after the expression pass and the bodies it captured.  *)
(***************************************************************************)
\* The payload values of s from position from on, in order: the text from
\* each prefix marker that follows a double quote up to the next double quote.
RECURSIVE PayloadsIn(_, _)
PayloadsIn(s, from) ==
    LET open == FindFrom(s, "\"" \o BASE64_PREFIX, from)
        close == FindFrom(s, "\"", open + 1)
    IN  IF open = 0 \/ close = 0 THEN <<>>
        ELSE <<SubSeq(s, open + 1, close - 1)>> \o PayloadsIn(s, close + 1)

\* The elements of a sequence.
Range(seq) == {seq[k] : k \in 1..Len(seq)}

\* C20 as stated: every payload the expression pass made is in the output of
\* convertJsxToSvg unaltered, its body is in the output only inside the
\* payload, and when the pass captured every expression of the text the
\* payloads of the output decode to exactly the original bodies.
C20_BodiesProtected ==
    pc = "converted" =>
        LET expressions == replaceJsxExpressions(doc)
        IN  /\ \A p \in Range(PayloadsIn(expressions, 1)) :
                   /\ p \in Range(PayloadsIn(svg, 1))
                   /\ FindFrom(svg, "={" \o decodeJsx(p).value \o "}", 1) = 0
            /\ AllExpressionsBalanced(doc, 1) /\ expressions = WithExpressionsEncoded(doc, 1) =>
                   BraceBodies(doc, 1) \subseteq
                       {decodeJsx(p).value : p \in Range(PayloadsIn(svg, 1))}


(***************************************************************************)
(* convertJsxToSvg on texts whose attribute names end in a dictionary      *)
(* name.                                                                   *)
(***************************************************************************)
\* What comes before a name, two dictionary names with their '=', a value.
NameFragments == {
    " ", "data-", "my", "x:", "_", "9", "strokeWidth=", "fillOpacity=", "\"a\""}

NextNames ==
    \/ \E f \in NameFragments : Type(f)
    \/ Convert

SpecNames == Init /\ [][NextNames]_vars

(***************************************************************************)
(* C21.  Attribute names that end in a dictionary name.                    *)
(***************************************************************************)
\* The characters of an attribute name.
NameChars == WordChars \cup {"-", ":", "."}

\* The positions of text where a dictionary authoring name and its '=' start.
AuthoringNamesIn(text) ==
    {i \in 1..Len(text) :
        \E n \in 1..Len(jsxToSvgAttributeMap) :
            MatchLiteralAt(text, i, jsxToSvgAttributeMap[n][1] \o "=")}

\* Every dictionary name of text is the tail of a longer name: a character
\* of set comes right before it.
OnlyTails(text, set) ==
    /\ AuthoringNamesIn(text) # {}
    /\ \A i \in AuthoringNamesIn(text) : i > 1 /\ At(text, i - 1) \in set

EndsInEscapedBackslash(text) ==
    \E k \in 1..Len(text), q \in QuoteChars : MatchLiteralAt(text, k, "\\\\" \o q)

\* C22 as stated: for an expression with a quoted string that ends in an
\* escaped backslash, the scanner leaves string mode at the quote that closes
\* the string and finds the brace that closes the expression, so that the
\* expression is encoded.
C22_EscapedBackslashClosesString ==
    /\ spc = "done" /\ EndsInEscapedBackslash(input) /\ AllExpressionsBalanced(input, 1)
           => result = WithExpressionsEncoded(input, 1)
    /\ spc = "inner" /\ scan.j >= 3 /\ scan.j <= Len(input)
           /\ At(input, scan.j) \in QuoteChars
           /\ SubSeq(input, scan.j - 2, scan.j - 1) = "\\\\"
           /\ SubSeq(input, 1, scan.j - 3) \in {"={" \o q : q \in QuoteChars}
           /\ At(input, scan.j) = At(input, 3)
           => ~scan.inString


(***************************************************************************)
(* C23.  Event placeholders after the round trip.                          *)
(***************************************************************************)
\* C23 as stated: for every text built from supported attributes, whatever
\* the form of the value of an event attribute, no data-jsx-event- prefix
\* that convertJsxToSvg introduced is left after convertSvgToJsx.
C23_EventPlaceholdersUndone ==
    /\ pc = "restored"
    /\ IsBuiltFrom(doc, SupportedAttributes)
    /\ FindFrom(svg, "data-jsx-event-", 1) > 0
    => FindFrom(jsx, "data-jsx-event-", 1) = 0


(***************************************************************************)
(* The previews: SvgHoverProvider and SvgGutterPreview.  The texts of the  *)
(* model write white space as single spaces and numbers as integers.       *)
(***************************************************************************)
\* The matches of /<svg[\s\S]*?>[\s\S]*?<\/svg>/g in text from position from
\* on: match.index (0-based) and match[0].length.
RECURSIVE SvgMatches(_, _)
SvgMatches(text, from) ==
    LET start == FindFrom(text, "<svg", from)
        gt == IF start = 0 THEN 0 ELSE FindFrom(text, ">", start + 4)
        close == IF gt = 0 THEN 0 ELSE FindFrom(text, "</svg>", gt + 1)
    IN  IF close = 0 THEN <<>>
        ELSE <<[index |-> start - 1, length |-> close + 6 - start]>>
                 \o SvgMatches(text, close + 6)

\* s.replace(lit, rep) for a string lit: the first occurrence only.
ReplaceFirst(s, lit, rep) ==
    IF FindFrom(s, lit, 1) = 0 THEN s
    ELSE SubSeq(s, 1, FindFrom(s, lit, 1) - 1) \o rep
             \o SubSeq(s, FindFrom(s, lit, 1) + Len(lit), Len(s))

\* svgContent.replace(/=\{([^}]+)\}/g, '="$1"')
RECURSIVE QuoteExpressionsFrom(_, _)
QuoteExpressionsFrom(s, from) ==
    LET hits == {i \in from..Len(s) : MatchExpressionAt(s, i) > 0}
        i == Min(hits)
    IN  IF hits = {} THEN SubSeq(s, from, Len(s))
        ELSE SubSeq(s, from, i - 1)
                 \o "=\"" \o SubSeq(s, i + 2, MatchExpressionAt(s, i) - 1) \o "\""
                 \o QuoteExpressionsFrom(s, MatchExpressionAt(s, i) + 1)

\* The dictionary literal inside the private convertJsxToSvg of the preview
\* classes: the 36 entries of the transcoder's literal, in the same order.
jsxToSvgAttributes == ObjectFromEntries(JsxToSvgLiteral)

\* The private convertJsxToSvg of the two preview classes.
PreviewConvertJsxToSvg(svgContent) ==
    RenameAttributes(ReplaceWord(QuoteExpressionsFrom(svgContent, 1), "className=", "class="),
                     jsxToSvgAttributes)

\* name\s*=\s*["'][^"']+["'] matched at position i, after \b when bounded:
\* the positions of the two quotes, else zeros.
AttrAt(s, i, name, bounded) ==
    LET eq == RunEnd(s, i + Len(name), {" "})
        open == RunEnd(s, eq + 1, {" "})
        close == RunEnd(s, open + 1, CharSet(s) \ {"\"", "'"})
    IN  IF /\ MatchLiteralAt(s, i, name)
           /\ bounded => WordBoundaryAt(s, i)
           /\ eq <= Len(s) /\ At(s, eq) = "="
           /\ open <= Len(s) /\ At(s, open) \in {"\"", "'"}
           /\ close <= Len(s) /\ close > open + 1
        THEN [at |-> i, open |-> open, close |-> close]
        ELSE [at |-> 0, open |-> 0, close |-> 0]

\* \d+(?:px)? : an integer, with or without its unit.
IsNumber(v) ==
    /\ RunEnd(v, 1, DigitChars) > 1
    /\ SubSeq(v, RunEnd(v, 1, DigitChars), Len(v)) \in {"", "px"}

\* The first such match, among those with a number for value when numeric;
\* zeros when there is none.
FirstAttr(s, name, bounded, numeric) ==
    LET hits == {i \in 1..Len(s) :
                    /\ AttrAt(s, i, name, bounded).at > 0
                    /\ numeric => IsNumber(SubSeq(s, AttrAt(s, i, name, bounded).open + 1,
                                                  AttrAt(s, i, name, bounded).close - 1))}
    IN  IF hits = {} THEN [at |-> 0, open |-> 0, close |-> 0]
        ELSE AttrAt(s, Min(hits), name, bounded)

ValueOf(s, m) == SubSeq(s, m.open + 1, m.close - 1)

\* /\s+class\s*=\s*["'][^"']*["']/ matched at the space at position i: the
\* position of the closing quote, else 0.
MatchClassAttrAt(s, i) ==
    LET name == RunEnd(s, i, {" "})
        eq == RunEnd(s, name + 5, {" "})
        open == RunEnd(s, eq + 1, {" "})
        close == RunEnd(s, open + 1, CharSet(s) \ {"\"", "'"})
    IN  IF /\ i <= Len(s) /\ At(s, i) = " "
           /\ MatchLiteralAt(s, name, "class")
           /\ eq <= Len(s) /\ At(s, eq) = "="
           /\ open <= Len(s) /\ At(s, open) \in {"\"", "'"}
           /\ close <= Len(s)
        THEN close ELSE 0

\* svgContent.replace(/\s+class\s*=\s*["'][^"']*["']/g, '')
RECURSIVE RemoveClassFrom(_, _)
RemoveClassFrom(s, from) ==
    LET hits == {i \in from..Len(s) : MatchClassAttrAt(s, i) > 0}
    IN  IF hits = {} THEN SubSeq(s, from, Len(s))
        ELSE SubSeq(s, from, Min(hits) - 1)
                 \o RemoveClassFrom(s, MatchClassAttrAt(s, Min(hits)) + 1)

\* if (!svgContent.includes('xmlns=')) replace(/<svg/, '<svg xmlns=...')
AddXmlns(svgContent) ==
    IF FindFrom(svgContent, "xmlns=", 1) > 0 THEN svgContent
    ELSE ReplaceFirst(svgContent, "<svg", "<svg xmlns=\"http://www.w3.org/2000/svg\"")

\* contrastColor for the theme kind.
ContrastColor(kind) == IF kind \in {"Dark", "HighContrast"} THEN "#ffffff" ELSE "#000000"

\* svgContent.match(/<svg[^>]*>/i): the match, "" for null.
SvgOpenTag(svgContent) ==
    IF FindFrom(svgContent, "<svg", 1) = 0
       \/ FindFrom(svgContent, ">", FindFrom(svgContent, "<svg", 1) + 4) = 0
    THEN ""
    ELSE SubSeq(svgContent, FindFrom(svgContent, "<svg", 1),
                FindFrom(svgContent, ">", FindFrom(svgContent, "<svg", 1) + 4))

ShapeElements == <<"path", "line", "polyline", "polygon", "circle", "ellipse", "rect">>

\* <(path|line|...)([^>]*?)(\/?>) matched at position i: the tag name, the
\* positions where attrs end and where the match ends; at = 0 when no match.
MatchShapeAt(s, i) ==
    LET names == {n \in 1..Len(ShapeElements) : MatchLiteralAt(s, i, "<" \o ShapeElements[n])}
        tagName == ShapeElements[Min(names)]
        gt == FindFrom(s, ">", i + 1 + Len(tagName))
        slash == gt > i + 1 + Len(tagName) /\ At(s, gt - 1) = "/"
    IN  IF names = {} THEN [at |-> 0, tagName |-> "", attrsEnd |-> 0, end |-> 0]
        ELSE IF gt = 0 THEN [at |-> 0, tagName |-> "", attrsEnd |-> 0, end |-> 0]
        ELSE [at |-> i, tagName |-> tagName,
              attrsEnd |-> IF slash THEN gt - 2 ELSE gt - 1, end |-> gt]

\* /\bstroke\s*=/.test(attrs)
HasStroke(attrs) ==
    \E i \in 1..Len(attrs) :
        /\ MatchLiteralAt(attrs, i, "stroke") /\ WordBoundaryAt(attrs, i)
        /\ RunEnd(attrs, i + 6, {" "}) <= Len(attrs)
        /\ At(attrs, RunEnd(attrs, i + 6, {" "})) = "="

\* svgContent.replace(shapeRegex, callback)
RECURSIVE PropagateFrom(_, _, _)
PropagateFrom(s, from, stroke) ==
    LET hits == {i \in from..Len(s) : MatchShapeAt(s, i).at > 0}
        m == MatchShapeAt(s, Min(hits))
        attrs == SubSeq(s, m.at + 1 + Len(m.tagName), m.attrsEnd)
    IN  IF hits = {} THEN SubSeq(s, from, Len(s))
        ELSE SubSeq(s, from, m.at - 1)
                 \o (IF HasStroke(attrs) THEN SubSeq(s, m.at, m.end)
                     ELSE "<" \o m.tagName \o attrs \o " stroke=\"" \o stroke \o "\""
                              \o SubSeq(s, m.attrsEnd + 1, m.end))
                 \o PropagateFrom(s, m.end + 1, stroke)

propagateStrokeAndFill(svgContent) ==
    LET Propagated(svgOpenTag, strokeMatch) ==
            IF svgOpenTag = "" \/ strokeMatch.at = 0 THEN svgContent
            ELSE PropagateFrom(svgContent, 1, ValueOf(svgOpenTag, strokeMatch))
    IN  CHOOSE out \in {Propagated(tag, FirstAttr(tag, "stroke", TRUE, FALSE)) :
                            tag \in {SvgOpenTag(svgContent)}} : TRUE

\* Math.round(a * (minSize / b)) for integers a and b > 0.
RoundScaled(a, minSize, b) == (2 * a * minSize + b) \div (2 * b)

Max(a, b) == IF a >= b THEN a ELSE b

\* The numbers of viewBoxMatch[1].split(/\s+/), for a viewBox of integers.
RECURSIVE ViewBoxParts(_, _)
ViewBoxParts(v, from) ==
    IF from > Len(v) THEN <<>>
    ELSE <<ParseDigits(v, from, 0)>>
             \o (IF FindFrom(v, " ", from) = 0 THEN <<>>
                 ELSE ViewBoxParts(v, RunEnd(v, FindFrom(v, " ", from), {" "})))

ensureMinimumSize(svgContent, minSize) ==
    LET sized(w, h) == ReplaceFirst(svgContent, "<svg",
            "<svg width=\"" \o NumToStr(w) \o "\" height=\"" \o NumToStr(h) \o "\"")
        \* if (!hasWidth && !hasHeight)
        FromViewBox(parts) ==
            IF Len(parts) >= 4 /\ Max(parts[3], parts[4]) > 0
            THEN sized(RoundScaled(parts[3], minSize, Max(parts[3], parts[4])),
                       RoundScaled(parts[4], minSize, Max(parts[3], parts[4])))
            ELSE sized(minSize, minSize)
        \* the two replace calls of the else branch
        Rewritten(text, name, m, n) ==
            SubSeq(text, 1, m.at - 1) \o name \o "=\"" \o NumToStr(n) \o "\""
                \o SubSeq(text, m.close + 1, Len(text))
        ScaledUp(width, height) ==
            IF width < minSize /\ height < minSize /\ Max(width, height) > 0
            THEN CHOOSE out \in
                     {Rewritten(widened, "height", FirstAttr(widened, "height", TRUE, TRUE),
                                RoundScaled(height, minSize, Max(width, height))) :
                          widened \in {Rewritten(svgContent, "width",
                                                 FirstAttr(svgContent, "width", TRUE, TRUE),
                                                 RoundScaled(width, minSize, Max(width, height)))}} :
                     TRUE
            ELSE svgContent
        Ensured(svgOpenTag) ==
            LET hasWidth == FirstAttr(svgOpenTag, "width", TRUE, FALSE).at > 0
                hasHeight == FirstAttr(svgOpenTag, "height", TRUE, FALSE).at > 0
                viewBoxMatch == FirstAttr(svgOpenTag, "viewBox", FALSE, FALSE)
                widthMatch == FirstAttr(svgOpenTag, "width", TRUE, TRUE)
                heightMatch == FirstAttr(svgOpenTag, "height", TRUE, TRUE)
            IN  IF svgOpenTag = "" THEN svgContent
                ELSE IF ~hasWidth /\ ~hasHeight
                     THEN IF viewBoxMatch.at > 0
                          THEN CHOOSE out \in
                                   {FromViewBox(parts) :
                                        parts \in {ViewBoxParts(ValueOf(svgOpenTag, viewBoxMatch), 1)}} :
                                   TRUE
                          ELSE sized(minSize, minSize)
                ELSE IF widthMatch.at > 0 /\ heightMatch.at > 0
                     THEN CHOOSE out \in
                              {ScaledUp(width, height) :
                                   width \in {ParseDigits(ValueOf(svgOpenTag, widthMatch), 1, 0)},
                                   height \in {ParseDigits(ValueOf(svgOpenTag, heightMatch), 1, 0)}} :
                              TRUE
                ELSE svgContent
    IN  CHOOSE out \in {Ensured(tag) : tag \in {SvgOpenTag(svgContent)}} : TRUE

\* Buffer.from(text, 'utf8') for a text of any length: Units and Utf8Encode
\* applied to runs of ChunkUnits code units, no run ending inside a surrogate
\* pair, and the results concatenated.
ChunkUnits == 32

RECURSIVE BufferFrom(_)
BufferFrom(text) ==
    LET u == Units(SubSeq(text, 1, Min({Len(text), ChunkUnits + 1})))
        cut == IF Len(u) > ChunkUnits /\ IsHighSurrogate(u[ChunkUnits]) /\ IsLowSurrogate(u[ChunkUnits + 1])
               THEN ChunkUnits + 1 ELSE ChunkUnits
    IN  IF Len(text) <= ChunkUnits THEN Utf8Encode(Units(text))
        ELSE Utf8Encode(SubSeq(u, 1, cut)) \o BufferFrom(SubSeq(text, cut + 1, Len(text)))

\* buffer.toString('base64') for a buffer of any length: Base64Encode applied
\* to runs of ChunkBytes bytes, a multiple of three.
ChunkBytes == 48

RECURSIVE ToBase64(_)
ToBase64(b) ==
    IF Len(b) <= ChunkBytes THEN Base64Encode(b)
    ELSE Base64Encode(SubSeq(b, 1, ChunkBytes)) \o ToBase64(SubSeq(b, ChunkBytes + 1, Len(b)))

\* Buffer.byteLength(text, 'utf8')
ByteLength(text) == Len(BufferFrom(text))

\* The steps both classes apply to the matched text before they size it,
\* each applied to the value the step before it assigned to svgContent.
Resolved(originalSvg, kind) ==
    CHOOSE out \in
        {propagateStrokeAndFill(coloured) :
           coloured \in {ReplaceLiteral(named, "currentColor", ContrastColor(kind)) :
             named \in {AddXmlns(classless) :
               classless \in {RemoveClassFrom(converted, 1) :
                 converted \in {PreviewConvertJsxToSvg(matched) :
                   matched \in {originalSvg}}}}}} : TRUE

\* SvgGutterPreview.ensureMinimumSize: the branch for a tag without width and
\* height only.
GutterEnsureMinimumSize(svgContent, minSize) ==
    LET Ensured(svgOpenTag) ==
            IF \/ FirstAttr(svgOpenTag, "width", TRUE, FALSE).at > 0
               \/ FirstAttr(svgOpenTag, "height", TRUE, FALSE).at > 0
            THEN svgContent
            ELSE ensureMinimumSize(svgContent, minSize)
    IN  CHOOSE out \in {Ensured(tag) : tag \in {SvgOpenTag(svgContent)}} : TRUE

\* `data:image/svg+xml;base64,${Buffer.from(svgContent).toString('base64')}`
DataUri(svgContent) ==
    CHOOSE out \in {"data:image/svg+xml;base64," \o ToBase64(bytes) :
                        bytes \in {BufferFrom(svgContent)}} : TRUE

HoverMinSize == 128
GutterMinSize == 16

\* The data URI provideHover builds for the matched text originalSvg.
HoverDataUri(originalSvg, kind) ==
    CHOOSE out \in
        {DataUri(sized) :
           sized \in {ensureMinimumSize(resolved, HoverMinSize) :
             resolved \in {Resolved(originalSvg, kind)}}} : TRUE

\* The data URI updateDecorations builds for the matched text.
GutterDataUri(originalSvg, kind) ==
    CHOOSE out \in
        {DataUri(sized) :
           sized \in {GutterEnsureMinimumSize(resolved, GutterMinSize) :
             resolved \in {Resolved(originalSvg, kind)}}} : TRUE

(***************************************************************************)
(* The editor: documents that are edited, a colour theme and a clock.      *)
(***************************************************************************)
DocumentTexts ==
    { "<svg strokeWidth={2}></svg>",
      "<svg strokeWidth={3}></svg>",
      "a<svg stroke=\"currentColor\" viewBox=\"0 0 24 12\"><path/></svg>" }

ThemeKinds == {"Light", "Dark"}

cacheMaxAge == 5000
TickMs == 2500
MaxClock == 5000

EditorCall(method, u, p) == [method |-> method, uri |-> u, position |-> p, served |-> NoEntry]

\* The user replaces the text of document u.
Edit(u, t) ==
    /\ documents[u] # t
    /\ documents' = [documents EXCEPT ![u] = t]
    /\ called' = EditorCall("edit", u, 0)
    /\ UNCHANGED <<theme, clock, cache, hover, decorationTypes, created>>
    /\ UNCHANGED <<dictVars, bridgeVars, codecVars, scanVars, callVars>>

\* vscode.window.activeColorTheme changes.
SetTheme(kind) ==
    /\ theme # kind
    /\ theme' = kind
    /\ called' = EditorCall("theme", "", 0)
    /\ UNCHANGED <<documents, clock, cache, hover, decorationTypes, created>>
    /\ UNCHANGED <<dictVars, bridgeVars, codecVars, scanVars, callVars>>

\* Date.now() advances.
Tick ==
    /\ clock + TickMs <= MaxClock
    /\ clock' = clock + TickMs
    /\ called' = EditorCall("tick", "", 0)
    /\ UNCHANGED <<documents, theme, cache, hover, decorationTypes, created>>
    /\ UNCHANGED <<dictVars, bridgeVars, codecVars, scanVars, callVars>>

(***************************************************************************)
(* SvgHoverProvider                                                        *)
(***************************************************************************)
\* The first match of text whose range contains the offset position: its
\* number in SvgMatches(text, 1), 0 when no range contains it.
MatchAround(text, position) ==
    LET ms == SvgMatches(text, 1)
        hits == {n \in 1..Len(ms) :
                    ms[n].index <= position /\ position <= ms[n].index + ms[n].length}
    IN  IF hits = {} THEN 0 ELSE Min(hits)

OriginalSvg(text, position) ==
    LET m == SvgMatches(text, 1)[MatchAround(text, position)]
    IN  SubSeq(text, m.index + 1, m.index + m.length)

\* `${document.uri.toString()}:${match.index}:${originalSvg.length}`
CacheKey(u, text, position) ==
    LET m == SvgMatches(text, 1)[MatchAround(text, position)]
    IN  u \o ":" \o NumToStr(m.index) \o ":" \o NumToStr(m.length)

\* Map.prototype.get: the entries under key, one at most.
CacheGet(entries, key) == {e \in entries : e.key = key}

\* Map.prototype.set
CacheSet(entries, entry) == {e \in entries : e.key # entry.key} \cup {entry}

\* provideHover(document, position) for the document u and the offset position.
provideHover(u, position) ==
    /\ position <= Len(documents[u])
    /\ \E n \in {MatchAround(documents[u], position)} :
         IF n = 0
         THEN /\ hover' = NoHover
              /\ called' = EditorCall("provideHover", u, position)
              /\ UNCHANGED cache
         ELSE \E m \in {SvgMatches(documents[u], 1)[n]} :
              \E originalSvg \in {SubSeq(documents[u], m.index + 1, m.index + m.length)} :
                LET sizeBytes == ByteLength(originalSvg)
                    cacheKey == u \o ":" \o NumToStr(m.index) \o ":" \o NumToStr(Len(originalSvg))
                    cached == CacheGet(cache, cacheKey)
                    now == clock
                IN  IF \E e \in cached : now - e.timestamp < cacheMaxAge
                    THEN \E e \in cached :
                           /\ hover' = [isNull |-> FALSE, dataUri |-> e.dataUri,
                                        sizeBytes |-> e.sizeBytes,
                                        start |-> m.index, end |-> m.index + m.length]
                           /\ called' = [EditorCall("provideHover", u, position)
                                            EXCEPT !.served = e]
                           /\ UNCHANGED cache
                    ELSE \E dataUri \in {HoverDataUri(originalSvg, theme)} :
                           /\ cache' = CacheSet(cache, [key |-> cacheKey, dataUri |-> dataUri,
                                                        sizeBytes |-> sizeBytes,
                                                        timestamp |-> now])
                           /\ hover' = [isNull |-> FALSE, dataUri |-> dataUri,
                                        sizeBytes |-> sizeBytes,
                                        start |-> m.index, end |-> m.index + m.length]
                           /\ called' = EditorCall("provideHover", u, position)
    /\ UNCHANGED <<documents, theme, clock, decorationTypes, created>>
    /\ UNCHANGED <<dictVars, bridgeVars, codecVars, scanVars, callVars>>

clearCache ==
    /\ cache' = {}
    /\ called' = EditorCall("clearCache", "", 0)
    /\ UNCHANGED <<documents, theme, clock, hover, decorationTypes, created>>
    /\ UNCHANGED <<dictVars, bridgeVars, codecVars, scanVars, callVars>>

\* The document that is hovered and the offsets of the hovers.
HoverUri == "file:///a.tsx"
HoverOffsets == {0, 1}

NextHover ==
    \/ \E t \in DocumentTexts : Edit(HoverUri, t)
    \/ \E kind \in ThemeKinds : SetTheme(kind)
    \/ Tick
    \/ \E position \in HoverOffsets : provideHover(HoverUri, position)
    \/ clearCache

SpecHover == Init /\ [][NextHover]_vars

\* C24: the hover that provideHover has just returned for an SVG shows the
\* rendering and the byte size of the SVG text that the document holds at the
\* hovered position, and a hover answered from the cache was stored less than
\* cacheMaxAge ms before, under the key of that document, offset and length.
C24_HoverShowsCurrentText ==
    (called.method = "provideHover" /\ ~hover.isNull) =>
        /\ hover.dataUri = HoverDataUri(OriginalSvg(documents[called.uri], called.position), theme)
        /\ hover.sizeBytes = ByteLength(OriginalSvg(documents[called.uri], called.position))
        /\ called.served # NoEntry =>
              /\ clock - called.served.timestamp < cacheMaxAge
              /\ called.served.key = CacheKey(called.uri, documents[called.uri], called.position)


(***************************************************************************)
(* SvgGutterPreview.  created lists every decoration type that             *)
(* createTextEditorDecorationType has returned, in order of creation; the  *)
(* entries of decorationTypes hold positions in that list.  The field      *)
(* current of a type records that the latest updateDecorations for its     *)
(* URI created it.                                                         *)
(***************************************************************************)
MaxCreated == 3

\* The editor argument of a call without an active editor.
NoEditor == ""

GutterTexts == {"<svg></svg>", "<svg stroke=\"currentColor\"><path/></svg><svg></svg>"}

\* types.forEach(t => t.dispose()) for the types at the positions ids.
DisposeTypes(types, ids) ==
    [i \in 1..Len(types) |->
        IF i \in ids THEN [types[i] EXCEPT !.disposed = TRUE] ELSE types[i]]

\* A mutation of disposeDecorationsForUri that forgets the types of the URI
\* without disposing them.
ForgetDecorationsForUri(types, map, uri) ==
    [created |-> types, decorationTypes |-> {e \in map : e.uri # uri}]

\* disposeDecorationsForUri(uri), on the list of types and the map: what the
\* two are afterwards.
disposeDecorationsForUri(types, map, uri) ==
    IF \E e \in map : e.uri = uri
    THEN [created |-> DisposeTypes(types, UNION {Range(e.types) : e \in {x \in map : x.uri = uri}}),
          decorationTypes |-> {e \in map : e.uri # uri}]
    ELSE [created |-> types, decorationTypes |-> map]

\* updateDecorations(editor), for the editor of the document with that URI.
updateDecorations(editor) ==
    IF editor = NoEditor
    THEN /\ called' = EditorCall("updateDecorations", editor, 0)
         /\ UNCHANGED <<documents, theme, clock, cache, hover, decorationTypes, created>>
         /\ UNCHANGED <<dictVars, bridgeVars, codecVars, scanVars, callVars>>
    ELSE \E cleared \in {disposeDecorationsForUri(created, decorationTypes, editor)} :
         \E text \in {documents[editor]} :
         \E ms \in {SvgMatches(text, 1)} :
            LET earlier == [i \in 1..Len(created) |->
                               IF cleared.created[i].uri = editor
                               THEN [cleared.created[i] EXCEPT !.current = FALSE]
                               ELSE cleared.created[i]]
                newDecorationTypes ==
                    [n \in 1..Len(ms) |->
                        [uri |-> editor,
                         gutterIconPath |->
                             GutterDataUri(SubSeq(text, ms[n].index + 1,
                                                  ms[n].index + ms[n].length), theme),
                         range |-> ms[n].index,
                         disposed |-> FALSE,
                         current |-> TRUE]]
            IN  /\ Len(created) + Len(ms) <= MaxCreated
                /\ created' = earlier \o newDecorationTypes
                /\ decorationTypes' = cleared.decorationTypes
                       \cup {[uri |-> editor,
                              types |-> [n \in 1..Len(ms) |-> Len(created) + n]]}
                /\ called' = EditorCall("updateDecorations", editor, 0)
                /\ UNCHANGED <<documents, theme, clock, cache, hover>>
                /\ UNCHANGED <<dictVars, bridgeVars, codecVars, scanVars, callVars>>

\* dispose()
dispose ==
    /\ created' = DisposeTypes(created, UNION {Range(e.types) : e \in decorationTypes})
    /\ decorationTypes' = {}
    /\ called' = EditorCall("dispose", "", 0)
    /\ UNCHANGED <<documents, theme, clock, cache, hover>>
    /\ UNCHANGED <<dictVars, bridgeVars, codecVars, scanVars, callVars>>

NextDecorations ==
    \/ \E u \in Uris, t \in GutterTexts : Edit(u, t)
    \/ \E kind \in ThemeKinds : SetTheme(kind)
    \/ \E editor \in Uris \cup {NoEditor} : updateDecorations(editor)
    \/ dispose

SpecDecorations == Init /\ [][NextDecorations]_vars

\* The positions in created of the types under uri in decorationTypes.
Recorded(uri) == UNION {Range(e.types) : e \in {x \in decorationTypes : x.uri = uri}}

\* C25: every decoration type ever created is disposed or recorded in
\* decorationTypes under the URI of its document; the entry of a URI holds
\* exactly the types that the latest updateDecorations for that URI created,
\* in the order of their creation, and the earlier types of that URI are
\* disposed; after dispose() the map is empty and every type is disposed.
C25_DecorationLifecycle ==
    /\ \A i \in 1..Len(created) : created[i].disposed \/ i \in Recorded(created[i].uri)
    /\ \A e \in decorationTypes :
          /\ \A x \in decorationTypes : x.uri = e.uri => x = e
          /\ Range(e.types) = {i \in 1..Len(created) :
                                  created[i].uri = e.uri /\ created[i].current}
          /\ \A a, b \in 1..Len(e.types) : a < b => e.types[a] < e.types[b]
          /\ \A i \in Range(e.types) : ~created[i].disposed
          /\ \A i \in 1..Len(created) :
                created[i].uri = e.uri /\ ~created[i].current => created[i].disposed
    /\ called.method = "dispose" =>
          /\ decorationTypes = {}
          /\ \A i \in 1..Len(created) : created[i].disposed

\* dispose() has just returned, after types were created for two documents
\* and the types of an earlier updateDecorations were replaced.
C25_Witness ==
    /\ called.method = "dispose"
    /\ \E i, j \in 1..Len(created) : created[i].uri # created[j].uri
    /\ \E i \in 1..Len(created) : ~created[i].current

=============================================================================
